---- MODULE Spec2Model ----
(***************************************************************************)
(* SonaFlow firmware: the device state machine (Application, its five      *)
(* state objects), the BLE transport queue and the transmission worker.    *)
(*                                                                         *)
(* Three FreeRTOS tasks run concurrently: the main task (RunMainTask),     *)
(* the NimBLE host task (which delivers GAP events through                 *)
(* HandleGapEvent and so runs OnBleConnected / OnBleDisconnected) and the  *)
(* send task (SendTask).  A step of the model is one stretch of code that  *)
(* touches shared state at most once: Application::SetState is the locked  *)
(* read-compare-mutate followed, after the lock is released, by the hooks. *)
(* The main loop reads current_state_ without the lock; the read is one     *)
(* aligned pointer load and sees the value before or after a switch.        *)
(***************************************************************************)
EXTENDS Integers, Sequences, FiniteSets, TLC

\* ---------------------------------------------------------------- bounds
\* Spec, SpecSeq: records StreamingState::Execute may build in a run, and
\* BLE_GAP_EVENT_CONNECT events the link delivers in a run.
MaxRecords == 3
MaxConnects == 2
\* SpecQueue: the same two limits, chosen so that the queue fills.
MaxQueueRecords == 11
MaxQueueConnects == 1
\* SpecApi: the same two limits, and the number of SetState requests an
\* outside caller issues.
MaxApiRecords == 1
MaxApiConnects == 1
MaxApiCalls == 1
\* the run of SpecNotify: records, connect events and notify failures
MaxNotifyRecords == 3
MaxNotifyConnects == 2
MaxNotifyFailures == 1
\* SpecStream: records and connect events of the run; the queue fills and
\* a record is built after a frame was dropped
MaxStreamRecords == 12
MaxStreamConnects == 1
\* SpecInbound: records and connect events of the run, and the writes of
\* the peer
MaxInboundRecords == 1
MaxInboundConnects == 1
MaxInboundWrites == 2
\* SpecBoot: records and connect events of the run
MaxBootRecords == 1
MaxBootConnects == 2
\* SpecLive: records and connect events of the run
MaxLiveRecords == 2
MaxLiveConnects == 1
\* SpecCodec: the longest buffer handed to Decode
MaxBufferLen == 11
\* SpecFeature: the longest frame handed to the feature extractor
MaxFrameLen == 2

\* ------------------------------------------------------ program constants
kPacketSize == 10
kHeaderSync == 170
kDataTypeAudio == 1
QueueLength == 10
BLE_HS_CONN_HANDLE_NONE == 65535
SeqModulus == 65536

\* enum class AppState
kUninitialized == "kUninitialized"
kInitializing == "kInitializing"
kWaitingForConnection == "kWaitingForConnection"
kConnectedIdle == "kConnectedIdle"
kStreamingAudio == "kStreamingAudio"
kFatalError == "kFatalError"

AppState ==
    {kUninitialized, kInitializing, kWaitingForConnection, kConnectedIdle,
     kStreamingAudio, kFatalError}

\* Inputs of the environment, drawn from small sets.
ConnHandles == {0}
\* A uint32_t as its two 16-bit halves.
Uint32(hi, lo) == [hi |-> hi, lo |-> lo]

Timestamps == {Uint32(0, 1000)}
Features == {42}

NoState == "none"
NoPacket == [header |-> 0, data_type |-> 0, sequence |-> 0,
             timestamp |-> Uint32(0, 0), payload |-> 0, checksum |-> 0]
NoFrame == [bytes |-> <<>>, id |-> 0, conn |-> 0]
LedOff == <<0, 0, 0>>

VARIABLES
    current_state_,     \* Application::current_state_ (by its enum)
    state_mutex_,       \* owner of Application::state_mutex_, or "free"
    sequence_number_,   \* StreamingState::sequence_number_ (uint16_t)
    led_on_,            \* FatalErrorState::led_on_
    led,                \* colour last written to the status LED
    conn_handle_,       \* BLEManager::conn_handle_
    advertising,        \* the link is advertising (ble_gap_adv_active)
    send_queue_,        \* BLEManager::send_queue_, oldest frame first
    pc,                 \* position of each task
    new_state_enum,     \* SetState argument, per calling task
    old_state,          \* SetState local, per calling task
    new_state,          \* SetState local, per calling task
    gap_event,          \* GAP event the host task is handling
    packet,             \* StreamingState::Execute local
    send_ret,           \* result of the last SendAudioPacket
    packet_data,        \* SendTask local
    \* history variables
    record_limit,       \* records this run may build (a bound, never changes)
    connect_limit,      \* connect events of this run (a bound, never changes)
    fail_limit,         \* notify failures of this run (a bound, never changes)
    trace_notify,       \* this run keeps the send task's history, the
                        \* variables deq_connected and notified (never changes)
    trace_cycle,        \* this run keeps the history variable cycle (never
                        \* changes)
    built,              \* records built so far (the id of the last one)
    connects,           \* connect events delivered so far
    api_calls,          \* outside SetState requests so far
    enqueued,           \* ids of the frames xQueueSend stored, in order
    dequeued,           \* ids of the frames xQueueReceive returned, in order
    session_built,      \* records built since the last entry into Streaming
    rec_k,              \* position in its session of the record in `packet'
    early,              \* target of the outside caller's last SetState if it
                        \* returned early
    disc_from,          \* state a Disconnected event was handled in
    c2,                 \* progress of the Connected -> Idle -> Streaming chain
    deq_connected,      \* a connection was active when xQueueReceive returned
                        \* the frame in `packet_data'
    notified,           \* the calls of ble_gattc_notify_custom, in order
    cycle,              \* how the last StreamingState::Execute call ended
    dropped,            \* ids of the frames SendAudioPacket gave up on, kept
                        \* like cycle
    \* start-up: app_main, Application::CreateInstance and Initialize
    boot_pc,            \* position of app_main
    s_instance_,        \* Application::s_instance_ holds an Application
    init_ret,           \* what Application::CreateInstance returned
    on_connected_cb_,   \* BLEManager::on_connected_cb_ is set
    on_disconnected_cb_,    \* BLEManager::on_disconnected_cb_ is set
    \* SetState taken statement by statement
    hook_log,           \* per task, the hooks its last SetState call invoked
    switched,           \* per task, <<state replaced, state selected>> of
                        \* its last SetState call, <<>> after an early return
    adv_ret,            \* what StartAdvertising returned to the last
                        \* WaitingForConnectionState::OnEnter that called it
    \* writes of the peer to the audio characteristic
    on_audio_packet_received_cb_,   \* the receive callback is set
    received,           \* the calls of on_audio_packet_received_cb_, in order
    gatt_writes,        \* writes handled by GattAccessCallback so far
    \* the packet codec and the feature extractor, called on their own
    unit_pc,            \* what has been applied to the inputs below
    record_in,          \* AudioPacket handed to PacketEncoder::Encode
    om_data,            \* byte buffer handed to PacketDecoder::Decode
    dec_ret,            \* what Decode returned
    dec_at,             \* the check of ValidatePacket that decided it
    dec_packet,         \* Decode's out-parameter `packet'
    dec_reads,          \* indices of the buffer bytes Decode has read
    flipped,            \* <<byte, bit>> corrupted in om_data, or <<>>
    frame_buffer,       \* the samples AudioSource::Read stored in its
                        \* destination (GetFeature's local frame_buffer)
    feature_out,        \* GetFeature's out-parameter `feature'
    dest_size,          \* dest_buffer.size() of the last Read call
    read_ret,           \* what Read returned
    samples_read,       \* Read's out-parameter `samples_read'
    i2s_reads,          \* calls of i2s_channel_read so far
    feature_ret,        \* what GetFeature returned
    sum_of_squares      \* GetFeature local (int64_t), as 16-bit limbs with
                        \* the least significant first

vars ==
    <<record_limit, connect_limit, fail_limit, trace_notify, trace_cycle,
      cycle, dropped, boot_pc, s_instance_, init_ret, on_connected_cb_,
      on_disconnected_cb_, hook_log, switched, adv_ret,
      on_audio_packet_received_cb_, received, gatt_writes, current_state_,
      state_mutex_, sequence_number_, led_on_, led, conn_handle_, advertising,
      send_queue_, pc, new_state_enum, old_state, new_state, gap_event,
      packet, send_ret, packet_data, built, connects, api_calls, enqueued,
      dequeued, session_built, rec_k, early, disc_from, c2, deq_connected,
      notified, unit_pc, record_in, om_data, dec_ret, dec_at, dec_packet,
      dec_reads, flipped, frame_buffer, feature_out, dest_size, read_ret,
      samples_read, i2s_reads, feature_ret, sum_of_squares>>

\* the bounds of a run
limits ==
    <<record_limit, connect_limit, fail_limit, trace_notify, trace_cycle>>

\* start-up
boot_vars ==
    <<boot_pc, s_instance_, init_ret, on_connected_cb_, on_disconnected_cb_>>

\* the history of SetState's hooks
hook_vars == <<hook_log, switched, adv_ret>>

\* the receive path
inbound_vars == <<on_audio_packet_received_cb_, received, gatt_writes>>

\* the variables the firmware's tasks never touch
unit_vars ==
    <<unit_pc, record_in, om_data, dec_ret, dec_at, dec_packet, dec_reads,
      flipped, frame_buffer, feature_out, dest_size, read_ret, samples_read,
      i2s_reads, feature_ret, sum_of_squares>>

\* what PacketDecoder::Decode is handed and what it gives back
codec_vars ==
    <<record_in, om_data, dec_ret, dec_at, dec_packet, dec_reads, flipped>>

\* what AudioSource::Read and GetFeature are handed and what they give back
audio_vars ==
    <<frame_buffer, feature_out, dest_size, read_ret, samples_read, i2s_reads,
      feature_ret, sum_of_squares>>

Tasks == {"main", "host", "send", "api"}
Callers == {"main", "host", "api"}

\* ----------------------------------------------------------- packet codec
RECURSIVE BitXor(_, _)
BitXor(a, b) ==
    IF a = 0 /\ b = 0 THEN 0
    ELSE (((a % 2) + (b % 2)) % 2) + 2 * BitXor(a \div 2, b \div 2)

RECURSIVE CalculateChecksum(_, _)
CalculateChecksum(data, size) ==
    IF size = 0 THEN 0
    ELSE BitXor(CalculateChecksum(data, size - 1), data[size])

\* static_cast<uint8_t>(int8_t)
ToUint8(v) == (v + 256) % 256

\* Encode of an encoder that writes the sequence number low byte first.
EncodeLittleEndian(p) ==
    LET body == <<p.header % 256,
                  p.data_type % 256,
                  p.sequence % 256,
                  (p.sequence \div 256) % 256,
                  (p.timestamp.hi \div 256) % 256,
                  p.timestamp.hi % 256,
                  (p.timestamp.lo \div 256) % 256,
                  p.timestamp.lo % 256,
                  ToUint8(p.payload)>>
    IN  Append(body, CalculateChecksum(body, kPacketSize - 1))

\* PacketEncoder::Encode(packet)
Encode(p) ==
    LET body == <<p.header % 256,
                  p.data_type % 256,
                  (p.sequence \div 256) % 256,
                  p.sequence % 256,
                  (p.timestamp.hi \div 256) % 256,
                  p.timestamp.hi % 256,
                  (p.timestamp.lo \div 256) % 256,
                  p.timestamp.lo % 256,
                  ToUint8(p.payload)>>
    IN  Append(body, CalculateChecksum(body, kPacketSize - 1))

\* ToInt8 of a decoder that leaves the byte as it is.
ToInt8Raw(b) == b

\* static_cast<int8_t>(uint8_t)
ToInt8(b) == IF b >= 128 THEN b - 256 ELSE b

\* SizeOk of a validator that accepts any buffer long enough.
SizeOkAtLeast(size) == size >= kPacketSize

\* ValidatePacket: size != PacketConfig::kPacketSize is rejected
SizeOk(size) == size = kPacketSize

\* SyncOk of a validator that does not look at the header.
SyncOkAny(b) == TRUE

\* ValidatePacket: data[0] != PacketConfig::kHeaderSync is rejected
SyncOk(b) == b = kHeaderSync

\* ChecksumOk of a validator that compares the low seven bits only.
ChecksumOkLow7(calculated, stored) == calculated % 128 = stored % 128

\* ValidatePacket: calculated_checksum == data[kPacketSize - 1]
ChecksumOk(calculated, stored) == calculated = stored

\* PacketDecoder::ValidatePacket(data, size). The code returns a bool; `at'
\* names the check that returned it and `reads' the indices of the bytes of
\* data the call has read (index 1 is data[0]).
ValidatePacket(data, size) ==
    IF ~SizeOk(size)
    THEN [ok |-> FALSE, at |-> "size", reads |-> {}]
    ELSE IF ~SyncOk(data[1])
    THEN [ok |-> FALSE, at |-> "sync", reads |-> {1}]
    ELSE IF ~ChecksumOk(CalculateChecksum(data, kPacketSize - 1),
                        data[kPacketSize])
    THEN [ok |-> FALSE, at |-> "checksum", reads |-> 1..kPacketSize]
    ELSE [ok |-> TRUE, at |-> "ok", reads |-> 1..kPacketSize]

\* A Decode that clears its out-parameter before it validates.
OutOnFailureCleared(out) == NoPacket

\* The out-parameter after `return false': no statement before it writes to
\* packet.
OutOnFailure(out) == out

\* PacketDecoder::Decode(data, size, packet): the bool it returns, the value
\* of the out-parameter afterwards (untouched on failure), and what
\* ValidatePacket reported.
Decode(data, size, out) ==
    LET v == ValidatePacket(data, size)
    IN  IF ~v.ok
        THEN [ret |-> FALSE, packet |-> OutOnFailure(out), at |-> v.at,
              reads |-> v.reads]
        ELSE [ret |-> TRUE,
              packet |-> [header |-> data[1],
                          data_type |-> data[2],
                          sequence |-> data[3] * 256 + data[4],
                          timestamp |-> Uint32(data[5] * 256 + data[6],
                                               data[7] * 256 + data[8]),
                          payload |-> ToInt8(data[9]),
                          checksum |-> data[10]],
              at |-> v.at,
              reads |-> v.reads]

\* ------------------------------------------------------------- link state
IsConnected == conn_handle_ # BLE_HS_CONN_HANDLE_NONE
IsAdvertising == advertising

\* ------------------------------------------------------------------- Init
\* app_main is past Application::Start: CreateInstance has returned ESP_OK
\* and both link callbacks are set.
Started ==
    /\ boot_pc = "started"
    /\ s_instance_ = TRUE
    /\ init_ret = "ESP_OK"
    /\ on_connected_cb_ = TRUE
    /\ on_disconnected_cb_ = TRUE

\* No task has run: the members as their constructors leave them, the
\* link idle, the histories empty.
Fresh ==
    /\ current_state_ = kUninitialized
    /\ state_mutex_ = "free"
    /\ sequence_number_ = 0
    /\ led_on_ = FALSE
    /\ led = LedOff
    /\ conn_handle_ = BLE_HS_CONN_HANDLE_NONE
    /\ advertising = FALSE
    /\ send_queue_ = <<>>
    /\ new_state_enum = [t \in Callers |-> NoState]
    /\ old_state = [t \in Callers |-> NoState]
    /\ new_state = [t \in Callers |-> NoState]
    /\ gap_event = "none"
    /\ packet = NoPacket
    /\ send_ret = "none"
    /\ packet_data = NoFrame
    /\ built = 0
    /\ connects = 0
    /\ api_calls = 0
    /\ enqueued = <<>>
    /\ dequeued = <<>>
    /\ session_built = 0
    /\ rec_k = 0
    /\ early = NoState
    /\ disc_from = NoState
    /\ c2 = "none"
    /\ deq_connected = FALSE
    /\ notified = <<>>
    /\ cycle = "none"
    /\ dropped = {}
    /\ hook_log = [t \in Callers |-> <<>>]
    /\ switched = [t \in Callers |-> <<>>]
    /\ adv_ret = "none"
    /\ on_audio_packet_received_cb_ = FALSE
    /\ received = <<>>
    /\ gatt_writes = 0

\* The state after Application::CreateInstance has succeeded and Start has
\* created the main task; the host task and the send task were created by
\* BLEManager::Initialize.
Constructed ==
    /\ Started
    /\ Fresh
    /\ pc = [t \in Tasks |->
               CASE t = "main" -> "start"
                 [] t = "host" -> "sync"
                 [] t = "send" -> "receive"
                 [] OTHER -> "idle"]

\* AudioSource::Read and GetFeature have not been called on their own.
AudioOff ==
    /\ frame_buffer = <<>>
    /\ feature_out = 0
    /\ dest_size = 0
    /\ read_ret = "none"
    /\ samples_read = 0
    /\ i2s_reads = 0
    /\ feature_ret = "none"
    /\ sum_of_squares = <<>>

\* The codec and the feature extractor have not been called on their own.
UnitOff ==
    /\ unit_pc = "off"
    /\ record_in = NoPacket
    /\ om_data = <<>>
    /\ dec_ret = FALSE
    /\ dec_at = "none"
    /\ dec_packet = NoPacket
    /\ dec_reads = {}
    /\ flipped = <<>>
    /\ AudioOff

Init ==
    /\ Constructed
    /\ UnitOff
    /\ record_limit = MaxRecords
    /\ connect_limit = MaxConnects
    /\ fail_limit = 0
    /\ trace_notify = FALSE
    /\ trace_cycle = FALSE

InitQueue ==
    /\ Constructed
    /\ UnitOff
    /\ record_limit = MaxQueueRecords
    /\ connect_limit = MaxQueueConnects
    /\ fail_limit = 0
    /\ trace_notify = FALSE
    /\ trace_cycle = FALSE

InitApi ==
    /\ Constructed
    /\ UnitOff
    /\ record_limit = MaxApiRecords
    /\ connect_limit = MaxApiConnects
    /\ fail_limit = 0
    /\ trace_notify = FALSE
    /\ trace_cycle = FALSE

\* ------------------------------------------------- the state machine core
\* StateFor with a default branch that falls back to the waiting state.
StateForLenient(target) ==
    CASE target = kWaitingForConnection -> kWaitingForConnection
      [] target = kConnectedIdle -> kConnectedIdle
      [] target = kStreamingAudio -> kStreamingAudio
      [] target = kFatalError -> kFatalError
      [] OTHER -> kWaitingForConnection

\* The switch of Application::SetState: the state object a target selects.
StateFor(target) ==
    CASE target = kWaitingForConnection -> kWaitingForConnection
      [] target = kConnectedIdle -> kConnectedIdle
      [] target = kStreamingAudio -> kStreamingAudio
      [] target = kFatalError -> kFatalError
      [] OTHER -> kFatalError

\* Where a task resumes when its SetState call returns.
Cont(t) ==
    CASE t = "main" -> "loop"
      [] t = "host" -> IF gap_event = "disconnect" THEN "readv" ELSE "idle"
      [] OTHER -> "idle"

\* BLEManager::StartAdvertising: ok is the outcome of ble_gap_adv_start when
\* the link is not advertising yet (it fails when it already is).
StartAdvertising(ok) == advertising \/ ok

\* c2 follows the chain "Connected handled in WaitingForConnection, then the
\* next Execute call of the main loop".
C2AtDispatch(v) ==
    CASE v = "armed" -> "step"
      [] v = "done" -> "none"
      [] OTHER -> v

C2AtReturn(v) == IF v = "step" THEN "done" ELSE v

\* The value of current_state_ after the comparison and the switch.
Transition(cur, target) == IF cur = target THEN cur ELSE StateFor(target)

\* AlreadyInTarget without the comparison: every request runs the hooks.
NeverAlreadyInTarget(cur, target) == FALSE

\* SetState takes the early return.
AlreadyInTarget(cur, target) == cur = target

\* The block under the lock_guard: take state_mutex_, compare, pick the state
\* object, switch, release.  Nothing in the block waits, so it is one step.
SetStateCrit(t) ==
    /\ pc[t] = "SetState"
    /\ state_mutex_ = "free"
    /\ LET target == new_state_enum[t]
           noop == AlreadyInTarget(current_state_, target)
           next == Transition(current_state_, target)
       IN  /\ current_state_' = next
           /\ state_mutex_' = "free"
           /\ early' = IF t # "api" THEN early
                       ELSE IF noop THEN target ELSE NoState
           /\ new_state_enum' =
                [new_state_enum EXCEPT ![t] = IF noop THEN NoState ELSE target]
           /\ old_state' = [old_state EXCEPT
                              ![t] = IF noop THEN NoState ELSE current_state_]
           /\ new_state' = [new_state EXCEPT
                              ![t] = IF noop THEN NoState ELSE next]
           /\ pc' = [pc EXCEPT
                       ![t] = IF noop THEN Cont(t) ELSE "SetState_hooks"]
           /\ session_built' =
                IF ~noop /\ next = kStreamingAudio THEN 0 ELSE session_built
           /\ disc_from' =
                IF t = "host" /\ gap_event = "disconnect"
                THEN current_state_ ELSE disc_from
           /\ c2' =
                CASE t = "host" /\ gap_event = "connect"
                       /\ current_state_ = kWaitingForConnection ->
                         IF next = kConnectedIdle THEN "armed" ELSE "bad"
                  [] t = "main" /\ noop -> C2AtReturn(c2)
                  [] OTHER -> c2
           /\ gap_event' =
                IF t = "host" /\ noop /\ gap_event = "connect"
                THEN "none" ELSE gap_event
    /\ UNCHANGED <<unit_vars, limits, boot_vars, hook_vars, inbound_vars,
                   cycle, dropped, sequence_number_,
                   led_on_, led, conn_handle_, advertising, send_queue_,
                   packet, send_ret, packet_data, built, connects, api_calls,
                   enqueued, dequeued, rec_k, deq_connected, notified>>

\* SeqAfterOnEnter of an OnEnter that keeps the counter.
SeqKeptOnEnter(s, seq) == seq

\* sequence_number_ after new_state->OnEnter()
SeqAfterOnEnter(s, seq) == IF s = kStreamingAudio THEN 0 ELSE seq

\* The LED colour after new_state->OnEnter()
LedAfterOnEnter(s, colour) ==
    CASE s = kWaitingForConnection -> <<0, 0, 64>>
      [] s = kConnectedIdle -> <<0, 32, 32>>
      [] s = kStreamingAudio -> <<0, 64, 0>>
      [] OTHER -> colour

\* After the lock: old_state->OnExit() (empty for every state), then
\* new_state->OnEnter().
SetStateHooks(t) ==
    /\ pc[t] = "SetState_hooks"
    /\ \E ok \in BOOLEAN :
         LET s == new_state[t]
         IN  /\ sequence_number_' = SeqAfterOnEnter(s, sequence_number_)
             /\ led' = LedAfterOnEnter(s, led)
             /\ led_on_' = IF s = kFatalError THEN TRUE ELSE led_on_
             /\ advertising' =
                  IF s = kWaitingForConnection /\ ~IsAdvertising
                  THEN StartAdvertising(ok) ELSE advertising
    /\ pc' = [pc EXCEPT ![t] = Cont(t)]
    /\ old_state' = [old_state EXCEPT ![t] = NoState]
    /\ new_state' = [new_state EXCEPT ![t] = NoState]
    /\ new_state_enum' = [new_state_enum EXCEPT ![t] = NoState]
    /\ gap_event' =
         IF t = "host" /\ gap_event = "connect" THEN "none" ELSE gap_event
    /\ c2' = IF t = "main" THEN C2AtReturn(c2) ELSE c2
    /\ UNCHANGED <<unit_vars, limits, boot_vars, hook_vars, inbound_vars,
                   cycle, dropped, current_state_,
                   state_mutex_, conn_handle_, send_queue_, packet, send_ret,
                   packet_data, built, connects, api_calls, enqueued,
                   dequeued, session_built, rec_k, early, disc_from,
                   deq_connected, notified>>

\* ---------------------------------------------------------- the main task
\* Application::RunMainTask up to its first SetState call.
RunMainTask ==
    /\ pc["main"] = "start"
    /\ pc' = [pc EXCEPT !["main"] = "SetState"]
    /\ new_state_enum' =
         [new_state_enum EXCEPT !["main"] = kWaitingForConnection]
    /\ UNCHANGED <<unit_vars, limits, boot_vars, hook_vars, inbound_vars,
                   cycle, dropped, current_state_,
                   state_mutex_, sequence_number_, led_on_, led, conn_handle_,
                   advertising, send_queue_, old_state, new_state, gap_event,
                   packet, send_ret, packet_data, built, connects, api_calls,
                   enqueued, dequeued, session_built, rec_k, early, disc_from,
                   c2, deq_connected, notified>>

\* current_state_->Execute() with the waiting state: a delay, nothing else.
WaitingExecute ==
    /\ pc["main"] = "loop"
    /\ current_state_ = kWaitingForConnection
    /\ c2' = C2AtReturn(C2AtDispatch(c2))
    /\ UNCHANGED <<unit_vars, limits, boot_vars, hook_vars, inbound_vars,
                   cycle, dropped, current_state_,
                   state_mutex_, sequence_number_, led_on_, led, conn_handle_,
                   advertising, send_queue_, pc, new_state_enum, old_state,
                   new_state, gap_event, packet, send_ret, packet_data, built,
                   connects, api_calls, enqueued, dequeued, session_built,
                   rec_k, early, disc_from, deq_connected, notified>>

\* current_state_->Execute() with the connected-idle state.
ConnectedIdleExecute ==
    /\ pc["main"] = "loop"
    /\ current_state_ = kConnectedIdle
    /\ pc' = [pc EXCEPT !["main"] = "SetState"]
    /\ new_state_enum' = [new_state_enum EXCEPT !["main"] = kStreamingAudio]
    /\ c2' = C2AtDispatch(c2)
    /\ UNCHANGED <<unit_vars, limits, boot_vars, hook_vars, inbound_vars,
                   cycle, dropped, current_state_,
                   state_mutex_, sequence_number_, led_on_, led, conn_handle_,
                   advertising, send_queue_, old_state, new_state, gap_event,
                   packet, send_ret, packet_data, built, connects, api_calls,
                   enqueued, dequeued, session_built, rec_k, early, disc_from,
                   deq_connected, notified>>

\* current_state_->Execute() with the fatal-error state: blink and wait.
FatalErrorExecute ==
    /\ pc["main"] = "loop"
    /\ current_state_ = kFatalError
    /\ led' = IF led_on_ THEN <<255, 0, 0>> ELSE LedOff
    /\ led_on_' = ~led_on_
    /\ c2' = C2AtReturn(C2AtDispatch(c2))
    /\ UNCHANGED <<unit_vars, limits, boot_vars, hook_vars, inbound_vars,
                   cycle, dropped, current_state_,
                   state_mutex_, sequence_number_, conn_handle_, advertising,
                   send_queue_, pc, new_state_enum, old_state, new_state,
                   gap_event, packet, send_ret, packet_data, built, connects,
                   api_calls, enqueued, dequeued, session_built, rec_k, early,
                   disc_from, deq_connected, notified>>

\* current_state_->Execute() with the streaming state: the call begins.
StreamingDispatch ==
    /\ pc["main"] = "loop"
    /\ current_state_ = kStreamingAudio
    /\ pc' = [pc EXCEPT !["main"] = "stream_check"]
    /\ c2' = C2AtDispatch(c2)
    /\ UNCHANGED <<unit_vars, limits, boot_vars, hook_vars, inbound_vars,
                   cycle, dropped, current_state_,
                   state_mutex_, sequence_number_, led_on_, led, conn_handle_,
                   advertising, send_queue_, new_state_enum, old_state,
                   new_state, gap_event, packet, send_ret, packet_data, built,
                   connects, api_calls, enqueued, dequeued, session_built,
                   rec_k, early, disc_from, deq_connected, notified>>

\* AfterConnectivityCheck of an Execute that goes on whatever the link says.
AfterConnectivityCheckAlways(connected) == "stream_audio"

\* StreamingState::Execute: if (!IsConnected()) { SetState(...); return; }
\* where the call goes with the answer it got
AfterConnectivityCheck(connected) ==
    IF connected THEN "stream_audio" ELSE "SetState"

\* StreamingState::Execute, the connectivity check.
StreamingCheck ==
    /\ pc["main"] = "stream_check"
    /\ LET to == AfterConnectivityCheck(IsConnected)
       IN  /\ pc' = [pc EXCEPT !["main"] = to]
           /\ new_state_enum' =
                IF to = "SetState"
                THEN [new_state_enum EXCEPT !["main"] = kWaitingForConnection]
                ELSE new_state_enum
           /\ cycle' = IF trace_cycle /\ to = "SetState"
                       THEN "disconnected" ELSE cycle
    /\ UNCHANGED <<unit_vars, limits, boot_vars, hook_vars, inbound_vars,
                   dropped, current_state_,
                   state_mutex_, sequence_number_, led_on_, led, conn_handle_,
                   advertising, send_queue_, old_state, new_state, gap_event,
                   packet, send_ret, packet_data, built, connects, api_calls,
                   enqueued, dequeued, session_built, rec_k, early, disc_from,
                   c2, deq_connected, notified>>

\* AfterAudioFail of an Execute that sends a record all the same.
AfterAudioFailSend == "stream_send"

\* StreamingState::Execute, if (ret != ESP_OK): vTaskDelay, return
AfterAudioFail == "loop"

\* StreamingState::Execute, GetFeature fails: wait and return.
StreamingAudioFail ==
    /\ pc["main"] = "stream_audio"
    /\ pc' = [pc EXCEPT !["main"] = AfterAudioFail]
    /\ c2' = C2AtReturn(c2)
    /\ cycle' = IF trace_cycle THEN "audio_failed" ELSE cycle
    /\ UNCHANGED <<unit_vars, limits, boot_vars, hook_vars, inbound_vars,
                   dropped, current_state_,
                   state_mutex_, sequence_number_, led_on_, led, conn_handle_,
                   advertising, send_queue_, new_state_enum, old_state,
                   new_state, gap_event, packet, send_ret, packet_data, built,
                   connects, api_calls, enqueued, dequeued, session_built,
                   rec_k, early, disc_from, deq_connected, notified>>

\* SequenceOfRecord of a pre-increment (++sequence_number_).
SequenceOfRecordPre(seq) == (seq + 1) % SeqModulus

\* .sequence = sequence_number_++ : the value the record gets
SequenceOfRecord(seq) == seq

\* .sequence = sequence_number_++ : the counter afterwards (uint16_t)
SequenceAfterRecord(seq) == (seq + 1) % SeqModulus

\* StreamingState::Execute, GetFeature succeeds: build the record.
StreamingBuild ==
    /\ pc["main"] = "stream_audio"
    /\ built < record_limit
    /\ \E feature \in Features, ts \in Timestamps :
         packet' = [header |-> kHeaderSync,
                    data_type |-> kDataTypeAudio,
                    sequence |-> SequenceOfRecord(sequence_number_),
                    timestamp |-> ts,
                    payload |-> feature,
                    checksum |-> 0]
    /\ sequence_number_' = SequenceAfterRecord(sequence_number_)
    /\ built' = built + 1
    /\ IF current_state_ = kStreamingAudio
       THEN /\ session_built' = session_built + 1
            /\ rec_k' = session_built + 1
       ELSE /\ rec_k' = 0
            /\ UNCHANGED session_built
    /\ pc' = [pc EXCEPT !["main"] = "stream_send"]
    /\ UNCHANGED <<unit_vars, limits, boot_vars, hook_vars, inbound_vars,
                   cycle, dropped, current_state_,
                   state_mutex_, led_on_, led, conn_handle_, advertising,
                   send_queue_, new_state_enum, old_state, new_state,
                   gap_event, send_ret, packet_data, connects, api_calls,
                   enqueued, dequeued, early, disc_from, c2, deq_connected,
                   notified>>

\* QueueAfterSend of a queue that overwrites its oldest frame when full.
QueueAfterSendOverwrite(q, frame) ==
    IF Len(q) < QueueLength THEN Append(q, frame) ELSE Append(Tail(q), frame)

\* QueueAfterSend of a queue without a capacity.
QueueAfterSendUnbounded(q, frame) == Append(q, frame)

\* xQueueSend with a timeout: the frame is stored when a slot is free, and
\* the call gives up when the timeout ends with the queue still full.
QueueAfterSend(q, frame) ==
    IF Len(q) < QueueLength THEN Append(q, frame) ELSE q

\* What SendAudioPacket returns.
SendResult(q) ==
    IF Len(q) < QueueLength THEN "ESP_OK" ELSE "ESP_ERR_TIMEOUT"

\* AfterSend of an Execute that offers a frame again after a timeout.
AfterSendRetry(ret) == IF ret = "ESP_OK" THEN "loop" ELSE "stream_send"

\* StreamingState::Execute after SendAudioPacket, whose result it ignores:
\* vTaskDelay, return
AfterSend(ret) == "loop"

\* BLEManager::SendAudioPacket, then the pacing delay of Execute.
SendAudioPacket ==
    /\ pc["main"] = "stream_send"
    /\ LET frame == [bytes |-> Encode(packet), id |-> built,
                     conn |-> IF trace_notify THEN connects ELSE 0]
           stored == QueueAfterSend(send_queue_, frame)
       IN  /\ send_queue_' = stored
           /\ send_ret' = SendResult(send_queue_)
           /\ enqueued' =
                IF \E i \in 1..Len(stored) : stored[i].id = built
                THEN Append(enqueued, built) ELSE enqueued
    /\ LET to == AfterSend(SendResult(send_queue_))
       IN  /\ packet' = IF to = "loop" THEN NoPacket ELSE packet
           /\ rec_k' = IF to = "loop" THEN 0 ELSE rec_k
           /\ pc' = [pc EXCEPT !["main"] = to]
    /\ c2' = C2AtReturn(c2)
    /\ cycle' = IF ~trace_cycle THEN cycle
                ELSE IF SendResult(send_queue_) = "ESP_OK" THEN "sent"
                ELSE "dropped"
    /\ dropped' = IF trace_cycle /\ SendResult(send_queue_) # "ESP_OK"
                  THEN dropped \cup {built} ELSE dropped
    /\ UNCHANGED <<unit_vars, limits, boot_vars, hook_vars, inbound_vars,
                   current_state_,
                   state_mutex_, sequence_number_, led_on_, led, conn_handle_,
                   advertising, new_state_enum, old_state, new_state,
                   gap_event, packet_data, built, connects, api_calls,
                   dequeued, session_built, early, disc_from, deq_connected,
                   notified>>

\* ------------------------------------------------------ the NimBLE host task
\* BLEManager::OnSync: the stack is ready, start advertising.
OnSync ==
    /\ pc["host"] = "sync"
    /\ \E ok \in BOOLEAN : advertising' = StartAdvertising(ok)
    /\ pc' = [pc EXCEPT !["host"] = "idle"]
    /\ UNCHANGED <<unit_vars, limits, boot_vars, hook_vars, inbound_vars,
                   cycle, dropped, current_state_,
                   state_mutex_, sequence_number_, led_on_, led, conn_handle_,
                   send_queue_, new_state_enum, old_state, new_state,
                   gap_event, packet, send_ret, packet_data, built, connects,
                   api_calls, enqueued, dequeued, session_built, rec_k, early,
                   disc_from, c2, deq_connected, notified>>

\* HandleGapEvent, BLE_GAP_EVENT_CONNECT: record the handle, then
\* on_connected_cb_ -> Application::OnBleConnected -> SetState.
GapConnect ==
    /\ pc["host"] = "idle"
    /\ advertising
    /\ ~IsConnected
    /\ connects < connect_limit
    /\ \E h \in ConnHandles : conn_handle_' = h
    /\ advertising' = FALSE
    /\ connects' = connects + 1
    /\ IF on_connected_cb_
       THEN /\ gap_event' = "connect"
            /\ pc' = [pc EXCEPT !["host"] = "SetState"]
            /\ new_state_enum' =
                 [new_state_enum EXCEPT !["host"] = kConnectedIdle]
       ELSE UNCHANGED <<gap_event, pc, new_state_enum>>
    /\ UNCHANGED <<unit_vars, limits, boot_vars, hook_vars, inbound_vars,
                   cycle, dropped, current_state_,
                   state_mutex_, sequence_number_, led_on_, led, send_queue_,
                   old_state, new_state, packet, send_ret, packet_data, built,
                   api_calls, enqueued, dequeued, session_built, rec_k, early,
                   disc_from, c2, deq_connected, notified>>

\* HandleGapEvent, BLE_GAP_EVENT_DISCONNECT: clear the handle, then
\* on_disconnected_cb_ -> Application::OnBleDisconnected -> SetState.
GapDisconnect ==
    /\ pc["host"] = "idle"
    /\ IsConnected
    /\ conn_handle_' = BLE_HS_CONN_HANDLE_NONE
    /\ gap_event' = "disconnect"
    /\ IF on_disconnected_cb_
       THEN /\ pc' = [pc EXCEPT !["host"] = "SetState"]
            /\ new_state_enum' =
                 [new_state_enum EXCEPT !["host"] = kWaitingForConnection]
       ELSE /\ pc' = [pc EXCEPT !["host"] = "readv"]
            /\ UNCHANGED new_state_enum
    /\ c2' = "none"
    /\ UNCHANGED <<unit_vars, limits, boot_vars, hook_vars, inbound_vars,
                   cycle, dropped, current_state_,
                   state_mutex_, sequence_number_, led_on_, led, advertising,
                   send_queue_, old_state, new_state, packet, send_ret,
                   packet_data, built, connects, api_calls, enqueued,
                   dequeued, session_built, rec_k, early, disc_from,
                   deq_connected, notified>>

\* HandleGapEvent, BLE_GAP_EVENT_DISCONNECT, after the callback:
\* StartAdvertising() once more.
GapDisconnectRestart ==
    /\ pc["host"] = "readv"
    /\ \E ok \in BOOLEAN : advertising' = StartAdvertising(ok)
    /\ pc' = [pc EXCEPT !["host"] = "idle"]
    /\ gap_event' = "none"
    /\ disc_from' = NoState
    /\ UNCHANGED <<unit_vars, limits, boot_vars, hook_vars, inbound_vars,
                   cycle, dropped, current_state_,
                   state_mutex_, sequence_number_, led_on_, led, conn_handle_,
                   send_queue_, new_state_enum, old_state, new_state, packet,
                   send_ret, packet_data, built, connects, api_calls,
                   enqueued, dequeued, session_built, rec_k, early, c2,
                   deq_connected, notified>>

\* ------------------------------------------------------------ the send task
\* ReceivedFrame of a queue that hands out its newest frame.
ReceivedFrameNewest(q) == q[Len(q)]

\* xQueueReceive: the frame it copies out
ReceivedFrame(q) == Head(q)

\* QueueAfterReceive of a receive that leaves the frame in the queue
\* (xQueuePeek).
QueueAfterReceivePeek(q) == q

\* xQueueReceive: the queue it leaves
QueueAfterReceive(q) == Tail(q)

\* SendTask: block until a frame is available, take it.
SendTaskReceive ==
    /\ pc["send"] = "receive"
    /\ send_queue_ # <<>>
    /\ packet_data' = ReceivedFrame(send_queue_)
    /\ send_queue_' = QueueAfterReceive(send_queue_)
    /\ dequeued' = Append(dequeued, ReceivedFrame(send_queue_).id)
    /\ deq_connected' = (trace_notify /\ IsConnected)
    /\ pc' = [pc EXCEPT !["send"] = "check"]
    /\ UNCHANGED <<unit_vars, limits, boot_vars, hook_vars, inbound_vars,
                   cycle, dropped, current_state_,
                   state_mutex_, sequence_number_, led_on_, led, conn_handle_,
                   advertising, new_state_enum, old_state, new_state,
                   gap_event, packet, send_ret, built, connects, api_calls,
                   enqueued, session_built, rec_k, early, disc_from, c2,
                   notified>>

\* AfterCheck of a worker that notifies whatever the handle is.
AfterCheckAlways(handle) == "notify"

\* SendTask: if (manager->conn_handle_ != BLE_HS_CONN_HANDLE_NONE), where
\* the worker goes with the handle it has read
AfterCheck(handle) ==
    IF handle # BLE_HS_CONN_HANDLE_NONE THEN "notify" ELSE "receive"

\* SendTask: test the connection handle; without a connection the frame is
\* dropped and the loop starts over.
SendTaskCheck ==
    /\ pc["send"] = "check"
    /\ pc' = [pc EXCEPT !["send"] = AfterCheck(conn_handle_)]
    /\ packet_data' = IF AfterCheck(conn_handle_) = "notify"
                      THEN packet_data ELSE NoFrame
    /\ deq_connected' = (AfterCheck(conn_handle_) = "notify" /\ deq_connected)
    /\ UNCHANGED <<unit_vars, limits, boot_vars, hook_vars, inbound_vars,
                   cycle, dropped, current_state_,
                   state_mutex_, sequence_number_, led_on_, led, conn_handle_,
                   advertising, send_queue_, new_state_enum, old_state,
                   new_state, gap_event, packet, send_ret, built, connects,
                   api_calls, enqueued, dequeued, session_built, rec_k, early,
                   disc_from, c2, notified>>

\* results of ble_gattc_notify_custom: 0, or an error code
NotifyResults == {0, 7}

\* the calls in a notify log that failed
NotifyFailures(log) == Cardinality({i \in 1..Len(log) : log[i].rc # 0})

\* AfterNotify of a worker that offers a failed frame to the link again.
AfterNotifyRetry(rc) == IF rc = 0 THEN "receive" ELSE "notify"

\* SendTask: where the worker goes after ble_gattc_notify_custom returned rc
\* (a non-zero rc is logged, nothing else)
AfterNotify(rc) == "receive"

\* SendTask: ble_gattc_notify_custom(manager->conn_handle_, ...) with the
\* handle read again for the call; its result is only logged.
SendTaskNotify ==
    /\ pc["send"] = "notify"
    /\ \E rc \in NotifyResults :
         /\ rc # 0 => NotifyFailures(notified) < fail_limit
         /\ notified' = IF trace_notify
                        THEN Append(notified, [id |-> packet_data.id,
                                               handle |-> conn_handle_,
                                               rc |-> rc,
                                               enq_conn |-> packet_data.conn,
                                               conn |-> connects])
                        ELSE notified
         /\ pc' = [pc EXCEPT !["send"] = AfterNotify(rc)]
         /\ packet_data' = IF AfterNotify(rc) = "receive"
                           THEN NoFrame ELSE packet_data
         /\ deq_connected' = (AfterNotify(rc) # "receive" /\ deq_connected)
    /\ UNCHANGED <<unit_vars, limits, boot_vars, hook_vars, inbound_vars,
                   cycle, dropped, current_state_,
                   state_mutex_, sequence_number_, led_on_, led, conn_handle_,
                   advertising, send_queue_, new_state_enum, old_state,
                   new_state, gap_event, packet, send_ret, built, connects,
                   api_calls, enqueued, dequeued, session_built, rec_k, early,
                   disc_from, c2>>

\* ----------------------------------------------- an outside SetState caller
\* Application::SetState is public: a request with any AppState value.
ApiSetState ==
    /\ pc["api"] = "idle"
    /\ api_calls < MaxApiCalls
    /\ api_calls' = api_calls + 1
    /\ \E target \in AppState :
         new_state_enum' = [new_state_enum EXCEPT !["api"] = target]
    /\ pc' = [pc EXCEPT !["api"] = "SetState"]
    /\ UNCHANGED <<unit_vars, limits, boot_vars, hook_vars, inbound_vars,
                   cycle, dropped, current_state_,
                   state_mutex_, sequence_number_, led_on_, led, conn_handle_,
                   advertising, send_queue_, old_state, new_state, gap_event,
                   packet, send_ret, packet_data, built, connects, enqueued,
                   dequeued, session_built, rec_k, early, disc_from, c2,
                   deq_connected, notified>>

\* the variables of the three tasks and their history
core_vars ==
    <<cycle, dropped, current_state_, state_mutex_, sequence_number_,
      led_on_, led, conn_handle_, advertising, send_queue_, pc,
      new_state_enum, old_state, new_state, gap_event, packet, send_ret,
      packet_data, built, connects, api_calls, enqueued, dequeued,
      session_built, rec_k, early, disc_from, c2, deq_connected, notified>>

\* the firmware's own variables
firmware_vars == <<limits, boot_vars, hook_vars, inbound_vars, core_vars>>

\* ------------------------------------------------- the codec on its own
\* records handed to Encode: any header and type byte, sequence numbers and
\* timestamps with every byte exercised, payloads of both signs
CodecRecords ==
    [header : {kHeaderSync, 85},
     data_type : {0, kDataTypeAudio, 255},
     sequence : {0, 1, 258, 65535},
     timestamp : {Uint32(0, 0), Uint32(0, 1000), Uint32(258, 772),
                  Uint32(65535, 65535)},
     payload : {-128, -1, 0, 42, 127},
     checksum : {0}]

\* what the caller's record holds when it calls Decode: nothing yet, or
\* the result of an earlier call
OutRecords ==
    {NoPacket,
     [header |-> kHeaderSync, data_type |-> kDataTypeAudio, sequence |-> 7,
      timestamp |-> Uint32(0, 7), payload |-> -7, checksum |-> 163]}

\* bytes a peer appends to a frame
PadBytes == {0, kHeaderSync}

\* the byte b with bit number `bit' inverted
FlipBit(b, bit) ==
    IF (b \div (2 ^ bit)) % 2 = 1 THEN b - 2 ^ bit ELSE b + 2 ^ bit

\* buf cut or extended with the byte `pad' to n bytes
RECURSIVE Pad(_, _, _)
Pad(buf, n, pad) ==
    IF Len(buf) >= n THEN SubSeq(buf, 1, n)
    ELSE Pad(Append(buf, pad), n, pad)

\* PacketEncoder::Encode(record) for a record of CodecRecords
CodecEncode ==
    /\ unit_pc = "codec"
    /\ \E r \in CodecRecords :
         /\ record_in' = r
         /\ om_data' = Encode(r)
    /\ unit_pc' = "encoded"
    /\ UNCHANGED <<firmware_vars, audio_vars, dec_ret, dec_at, dec_packet,
                   dec_reads, flipped>>

\* One bit of the frame is inverted on its way to the peer or back.
CodecFlipBit ==
    /\ unit_pc = "encoded"
    /\ \E i \in 1..Len(om_data), bit \in 0..7 :
         /\ om_data' = [om_data EXCEPT ![i] = FlipBit(@, bit)]
         /\ flipped' = <<i, bit>>
    /\ unit_pc' = "received"
    /\ UNCHANGED <<firmware_vars, audio_vars, record_in, dec_ret, dec_at,
                   dec_packet, dec_reads>>

\* The peer writes a buffer of another length: a frame cut short or extended.
CodecResize ==
    /\ unit_pc = "encoded"
    /\ \E n \in (0..MaxBufferLen) \ {Len(om_data)}, pad \in PadBytes :
         om_data' = Pad(om_data, n, pad)
    /\ unit_pc' = "received"
    /\ UNCHANGED <<firmware_vars, audio_vars, record_in, dec_ret, dec_at,
                   dec_packet, dec_reads, flipped>>

\* GattAccessCallback: PacketDecoder::Decode(om_data, om_len, packet)
CodecDecode ==
    /\ unit_pc \in {"encoded", "received"}
    /\ LET d == Decode(om_data, Len(om_data), dec_packet)
       IN  /\ dec_ret' = d.ret
           /\ dec_at' = d.at
           /\ dec_packet' = d.packet
           /\ dec_reads' = d.reads
    /\ unit_pc' = "decoded"
    /\ UNCHANGED <<firmware_vars, audio_vars, record_in, om_data, flipped>>

\* The tasks are not started: only the codec is called.
InitCodec ==
    /\ Constructed
    /\ record_limit = 0
    /\ connect_limit = 0
    /\ fail_limit = 0
    /\ trace_notify = FALSE
    /\ trace_cycle = FALSE
    /\ unit_pc = "codec"
    /\ record_in = NoPacket
    /\ om_data = <<>>
    /\ dec_ret = FALSE
    /\ dec_at = "none"
    /\ dec_packet \in OutRecords
    /\ dec_reads = {}
    /\ flipped = <<>>
    /\ AudioOff

NextCodec ==
    \/ CodecEncode
    \/ CodecFlipBit
    \/ CodecResize
    \/ CodecDecode

SpecCodec == InitCodec /\ [][NextCodec]_vars

\* --------------------------------------------------------- the receive path
\* records a peer encodes and writes to the audio characteristic
InboundRecords ==
    {[header |-> kHeaderSync, data_type |-> kDataTypeAudio, sequence |-> 1,
      timestamp |-> Uint32(0, 1000), payload |-> 42, checksum |-> 0],
     [header |-> kHeaderSync, data_type |-> 0, sequence |-> 258,
      timestamp |-> Uint32(258, 772), payload |-> -1, checksum |-> 0]}

\* What arrives in ctxt->om: the frames of those records as encoded, with
\* the sync byte, a payload bit or a checksum bit inverted, cut by a byte,
\* extended by a byte, and an empty write.
InboundWrites ==
    LET valid == {Encode(r) : r \in InboundRecords}
    IN  valid
        \cup {[f EXCEPT ![1] = FlipBit(@, 0)] : f \in valid}
        \cup {[f EXCEPT ![9] = FlipBit(@, 7)] : f \in valid}
        \cup {[f EXCEPT ![10] = FlipBit(@, 3)] : f \in valid}
        \cup {SubSeq(f, 1, kPacketSize - 1) : f \in valid}
        \cup {Append(f, 0) : f \in valid}
        \cup {<<>>}

\* BLEManager::SetOnAudioPacketReceivedCallback, called by a user of the
\* link (Application::Initialize does not call it).
SetOnAudioPacketReceivedCallback ==
    /\ pc["api"] = "idle"
    /\ ~on_audio_packet_received_cb_
    /\ on_audio_packet_received_cb_' = TRUE
    /\ UNCHANGED <<unit_vars, limits, boot_vars, hook_vars, core_vars,
                   received, gatt_writes>>

\* Delivered of a handler that calls the callback for every write.
DeliveredAlways(ok, cb) == cb

\* GattAccessCallback: the callback is called when Decode returned true and
\* a callback is set
Delivered(ok, cb) == ok /\ cb

\* BLEManager::GattAccessCallback for BLE_GATT_ACCESS_OP_WRITE_CHR, run by
\* the host task: decode the written bytes into the local `packet' and hand
\* it to the callback; a write that does not decode is logged.
GattAccessCallback ==
    /\ pc["host"] = "idle"
    /\ IsConnected
    /\ gatt_writes < MaxInboundWrites
    /\ gatt_writes' = gatt_writes + 1
    /\ \E data \in InboundWrites :
         LET d == Decode(data, Len(data), NoPacket)
         IN  /\ om_data' = data
             /\ dec_ret' = d.ret
             /\ dec_at' = d.at
             /\ dec_packet' = d.packet
             /\ dec_reads' = d.reads
             /\ received' =
                  IF Delivered(d.ret, on_audio_packet_received_cb_)
                  THEN Append(received,
                              [bytes |-> data, packet |-> d.packet])
                  ELSE received
    /\ UNCHANGED <<limits, boot_vars, hook_vars, core_vars, audio_vars,
                   unit_pc, record_in, flipped,
                   on_audio_packet_received_cb_>>

\* ---------------------------------------- the feature extractor on its own
\* kReferenceRms squared: the mean square at the reference floor
kReferenceMeanSquare == 400

\* the size of GetFeature's frame_buffer
kMaxAudioSamples == 256

\* std::numeric_limits<int8_t>::max()
kInt8Max == 127

\* 2^20, the unit of the fractions in kLevelMeanSquare
kFractionUnit == 1048576

\* The mean squares at which (dB / kMaxDbLevel) * 127 reaches 1, 2, ..., 86,
\* with dB = 20 * log10(rms / kReferenceRms): level k is reached at
\* 400 * 10^(48 k / 635). Each entry is <<integer part, fraction in units of
\* 2^-20 rounded down>>; none of these numbers is rational. A frame of
\* int16_t samples has a mean square of at most 2^30, below level 86.
kLevelMeanSquare ==
    <<<<476, 50099>>, <<566, 580615>>, <<674, 279546>>, <<802, 480024>>,
      <<955, 21618>>, <<1136, 617199>>, <<1352, 709049>>, <<1609, 887359>>,
      <<1915, 953499>>, <<2280, 168765>>, <<2713, 696130>>, <<3229, 612529>>,
      <<3843, 619605>>, <<4574, 348412>>, <<5444, 1873>>, <<6479, 12988>>,
      <<7710, 837421>>, <<9176, 808856>>, <<10921, 476128>>,
      <<12997, 875416>>, <<15468, 1023428>>, <<18409, 974292>>,
      <<21910, 15390>>, <<26075, 560479>>, <<31033, 707>>,
      <<36932, 1025035>>, <<43954, 686561>>, <<52311, 303393>>,
      <<62256, 715812>>, <<74092, 931792>>, <<88179, 406340>>,
      <<104944, 3943>>, <<124895, 943244>>, <<148641, 40574>>,
      <<176900, 619211>>, <<210532, 873125>>, <<250559, 228643>>,
      <<298195, 416926>>, <<354888, 148068>>, <<422359, 291266>>,
      <<502657, 1037458>>, <<598223, 49846>>, <<711956, 924344>>,
      <<847313, 764353>>, <<1008404, 571599>>, <<1200121, 899589>>,
      <<1428288, 377362>>, <<1699833, 787109>>, <<2023005, 210226>>,
      <<2407617, 867300>>, <<2865352, 831524>>, <<3410112, 80436>>,
      <<4058440, 726955>>, <<4830029, 195901>>, <<5748311, 688702>>,
      <<6841177, 503970>>, <<8141818, 365645>>, <<9689736, 353594>>,
      <<11531943, 665979>>, <<13724390, 380338>>, <<16333663, 887196>>,
      <<19439010, 1003352>>, <<23134744, 983493>>, <<27533109, 853115>>,
      <<32767689, 398264>>, <<38997464, 324794>>, <<46411640, 622800>>,
      <<55235395, 1007626>>, <<65736718, 843189>>, <<78234547, 337201>>,
      <<93108456, 67857>>, <<110810184, 92396>>, <<131877354, 864940>>,
      <<156949804, 395273>>, <<186789014, 137560>>, <<222301237, 936635>>,
      <<264565025, 985348>>, <<314863981, 972532>>, <<374725747, 554474>>,
      <<445968398, 842254>>, <<530755663, 442991>>, <<631662635, 799989>>,
      <<751753985, 750365>>, <<894677036, 536140>>, <<1064772538, 472333>>,
      <<1267206502, 915349>>>>

\* Square of a multiplication done in 16 bits.
SquareInt16(sample) == (sample * sample) % 65536

\* int32_t sample = frame_buffer[i]; sample * sample
Square(sample) == sample * sample

\* the sum of terms[i] for i in from..to
RECURSIVE SumOver(_, _, _)
SumOver(terms, from, to) ==
    IF from > to THEN 0
    ELSE IF from = to THEN terms[from]
    ELSE LET mid == (from + to) \div 2
         IN  SumOver(terms, from, mid) + SumOver(terms, mid + 1, to)

\* An accumulator of 32 bits, in limbs of 16 bits.
kAccumulatorLimbs32 == 32 \div 16

\* int64_t sum_of_squares: four limbs of 16 bits
kAccumulatorLimbs == 4

\* the carry into limb i when the limb sequences a and b are added
RECURSIVE CarryInto(_, _, _)
CarryInto(a, b, i) ==
    IF i = 1 THEN 0
    ELSE (a[i - 1] + b[i - 1] + CarryInto(a, b, i - 1)) \div 65536

\* a + b in the accumulator's width: the carry out of the last limb is lost
AddLimbs(a, b) ==
    [i \in 1..Len(a) |-> (a[i] + b[i] + CarryInto(a, b, i)) % 65536]

\* a value of 0..2^31-1 widened to the accumulator
ToLimbs(v) ==
    [i \in 1..kAccumulatorLimbs |->
       CASE i = 1 -> v % 65536
         [] i = 2 -> v \div 65536
         [] OTHER -> 0]

\* sum_of_squares += sample * sample for the samples from..to of the frame.
\* The loop adds them one after the other; the terms are not negative, so
\* the sum leaves the accumulator's range in the loop exactly when the sum
\* of all terms does, and addition modulo 2^(16 * limbs) is associative:
\* the halves are added here to keep the evaluation shallow.
RECURSIVE SumSquares(_, _, _)
SumSquares(frame, from, to) ==
    IF from > to THEN ToLimbs(0)
    ELSE IF from = to THEN ToLimbs(Square(frame[from]))
    ELSE LET mid == (from + to) \div 2
         IN  AddLimbs(SumSquares(frame, from, mid),
                      SumSquares(frame, mid + 1, to))

\* the largest Square(frame[i])
PeakSquare(frame) ==
    CHOOSE v \in {Square(frame[i]) : i \in 1..Len(frame)} :
       \A i \in 1..Len(frame) : Square(frame[i]) <= v

\* MeanSquare of an extractor that takes the largest square for the mean.
MeanSquarePeak(frame) == [whole |-> PeakSquare(frame), rest |-> 0, n |-> 1]

\* static_cast<double>(sum_of_squares) / samples_read for the 64-bit sum of
\* the squares, as whole + rest / n with 0 <= rest < n. The sum is formed
\* from the quotients and remainders of the squares by n, which keeps every
\* intermediate value below 2^31.
MeanSquare(frame) ==
    LET n == Len(frame)
        quots == [i \in 1..n |-> Square(frame[i]) \div n]
        rems == SumOver([i \in 1..n |-> Square(frame[i]) % n], 1, n)
    IN  [whole |-> SumOver(quots, 1, n) + rems \div n,
         rest |-> rems % n,
         n |-> n]

\* The mean square ms is at or above level k of kLevelMeanSquare, that is
\* ms.whole + ms.rest / ms.n >= whole_k + fraction_k, decided on the
\* integer parts and, when they are equal, on ms.rest >= ms.n * fraction_k.
ReachesLevel(ms, k) ==
    LET level == kLevelMeanSquare[k]
    IN  \/ ms.whole > level[1]
        \/ /\ ms.whole = level[1]
           /\ ms.rest >= (ms.n * level[2]) \div kFractionUnit + 1

\* (db_value / kMaxDbLevel) * 127 rounded down, for
\* db_value = 20 * log10(max(rms_value, kReferenceRms) / kReferenceRms)
ScaledFeature(ms) ==
    Cardinality({k \in 1..Len(kLevelMeanSquare) : ReachesLevel(ms, k)})

\* std::clamp(scaled_feature, 0.0, 127.0), then static_cast<int8_t>
ClampFeature(scaled) ==
    IF scaled < 0 THEN 0 ELSE IF scaled > kInt8Max THEN kInt8Max ELSE scaled

\* AudioSource::GetFeature, steps 2 to 5, for a frame of at least one sample
FeatureOf(frame) == ClampFeature(ScaledFeature(MeanSquare(frame)))

\* samples AudioSource::Read delivers: both ends of int16_t, silence, values
\* around the reference floor, values in between
FeatureSamples == {-32768, -1000, -20, 0, 20, 24, 150, 5000, 32767}

\* the frames Read delivers: every frame of 1..MaxFrameLen samples, and the
\* frames of kMaxAudioSamples equal samples
FeatureFrames ==
    UNION {[1..n -> FeatureSamples] : n \in 1..MaxFrameLen}
    \cup {[i \in 1..kMaxAudioSamples |-> v] : v \in FeatureSamples}

\* TooLarge of a Read that accepts any destination size.
TooLargeNever(size) == FALSE

\* AudioSource::Read: if (dest_buffer.size() > kMaxAudioSamples)
TooLarge(size) == size > kMaxAudioSamples

\* What i2s_channel_read can do when it is asked for `size' samples: fail, or
\* deliver bytes_read / sizeof(int32_t) <= size samples, here already shifted
\* and clamped to int16_t by the loop that follows the call.
I2sOutcomes(size) ==
    {[ret |-> "ESP_ERR_TIMEOUT", frame |-> <<>>]}
    \cup {[ret |-> "ESP_OK", frame |-> f] :
            f \in {g \in FeatureFrames \cup {<<>>} : Len(g) <= size}}

\* AudioSource::Read(dest_buffer, samples_read) for a destination of `size'
\* samples holding `dest', a caller's variable holding `prev', and the
\* outcome `i2s' of i2s_channel_read if the call gets that far. rx_handle_
\* is never null: the constructor is private and Create passes the handle
\* of a channel it has enabled.
Read(size, i2s, dest, prev) ==
    IF TooLarge(size)
    THEN [ret |-> "ESP_ERR_INVALID_ARG", dest |-> dest,
          samples_read |-> prev, i2s_called |-> FALSE]
    ELSE IF size = 0
    THEN [ret |-> "ESP_OK", dest |-> dest,
          samples_read |-> 0, i2s_called |-> FALSE]
    ELSE IF i2s.ret # "ESP_OK"
    THEN [ret |-> i2s.ret, dest |-> dest,
          samples_read |-> prev, i2s_called |-> TRUE]
    ELSE [ret |-> "ESP_OK", dest |-> i2s.frame,
          samples_read |-> Len(i2s.frame), i2s_called |-> TRUE]

\* destination sizes a caller of Read asks for
ReadSizes ==
    {0, 1, MaxFrameLen, kMaxAudioSamples, kMaxAudioSamples + 1,
     2 * kMaxAudioSamples}

\* A caller other than GetFeature calls Read on a destination of its own.
ReadCall ==
    /\ unit_pc \in {"feature", "nothing"}
    /\ \E size \in ReadSizes :
         \E i2s \in I2sOutcomes(size) :
           LET r == Read(size, i2s, frame_buffer, samples_read)
           IN  /\ dest_size' = size
               /\ read_ret' = r.ret
               /\ frame_buffer' = r.dest
               /\ samples_read' = r.samples_read
               /\ i2s_reads' = IF r.i2s_called THEN i2s_reads + 1
                               ELSE i2s_reads
    /\ unit_pc' = "read_done"
    /\ UNCHANGED <<firmware_vars, codec_vars, feature_out, feature_ret,
                   sum_of_squares>>

\* GetFeature step 1: Read(std::span(frame_buffer), samples_read), with
\* samples_read = 0 before the call, returns ESP_OK and at least one sample.
FeatureRead ==
    /\ unit_pc = "feature"
    /\ \E i2s \in I2sOutcomes(kMaxAudioSamples) :
         LET r == Read(kMaxAudioSamples, i2s, <<>>, 0)
         IN  /\ r.ret = "ESP_OK"
             /\ r.samples_read # 0
             /\ dest_size' = kMaxAudioSamples
             /\ read_ret' = r.ret
             /\ frame_buffer' = r.dest
             /\ samples_read' = r.samples_read
             /\ i2s_reads' = IF r.i2s_called THEN i2s_reads + 1 ELSE i2s_reads
    /\ unit_pc' = "read"
    /\ UNCHANGED <<firmware_vars, codec_vars, feature_out, feature_ret,
                   sum_of_squares>>

\* GetFeature step 1, if (ret != ESP_OK || samples_read == 0): return ret
FeatureRetNothing(ret) == ret

\* GetFeature step 1: Read fails or delivers no sample; feature = 0 and
\* Read's result is returned.
FeatureReadNothing ==
    /\ unit_pc = "feature"
    /\ \E i2s \in I2sOutcomes(kMaxAudioSamples) :
         LET r == Read(kMaxAudioSamples, i2s, <<>>, 0)
         IN  /\ r.ret # "ESP_OK" \/ r.samples_read = 0
             /\ dest_size' = kMaxAudioSamples
             /\ read_ret' = r.ret
             /\ frame_buffer' = r.dest
             /\ samples_read' = r.samples_read
             /\ i2s_reads' = IF r.i2s_called THEN i2s_reads + 1 ELSE i2s_reads
             /\ feature_ret' = FeatureRetNothing(r.ret)
    /\ feature_out' = 0
    /\ unit_pc' = "nothing"
    /\ UNCHANGED <<firmware_vars, codec_vars, sum_of_squares>>

\* GetFeature steps 2 to 5
FeatureCompute ==
    /\ unit_pc = "read"
    /\ sum_of_squares' = SumSquares(frame_buffer, 1, samples_read)
    /\ feature_out' = FeatureOf(frame_buffer)
    /\ feature_ret' = "ESP_OK"
    /\ unit_pc' = "computed"
    /\ UNCHANGED <<firmware_vars, codec_vars, frame_buffer, dest_size,
                   read_ret, samples_read, i2s_reads>>

\* The tasks are not started: only Read and GetFeature are called. A caller's
\* samples_read holds any value before its first call.
InitFeature ==
    /\ Constructed
    /\ record_limit = 0
    /\ connect_limit = 0
    /\ fail_limit = 0
    /\ trace_notify = FALSE
    /\ trace_cycle = FALSE
    /\ unit_pc = "feature"
    /\ record_in = NoPacket
    /\ om_data = <<>>
    /\ dec_ret = FALSE
    /\ dec_at = "none"
    /\ dec_packet = NoPacket
    /\ dec_reads = {}
    /\ flipped = <<>>
    /\ frame_buffer = <<>>
    /\ feature_out = -1
    /\ dest_size = 0
    /\ read_ret = "none"
    /\ samples_read \in {0, 5}
    /\ i2s_reads = 0
    /\ feature_ret = "none"
    /\ sum_of_squares = <<>>

NextFeature ==
    \/ ReadCall
    \/ FeatureRead
    \/ FeatureReadNothing
    \/ FeatureCompute

SpecFeature == InitFeature /\ [][NextFeature]_vars

\* ------------------------------------------------------------- start-up
\* The order in which Application::Initialize creates the components.
AfterInitialize(at) ==
    CASE at = "led" -> "storage"
      [] at = "storage" -> "ble"
      [] at = "ble" -> "audio"
      [] OTHER -> "cb_connected"

\* app_main calls Application::CreateInstance: s_instance_.reset(new
\* Application()), then Initialize.
CreateInstance ==
    /\ boot_pc = "app_main"
    /\ boot_pc' = "led"
    /\ s_instance_' = TRUE
    /\ UNCHANGED <<unit_vars, limits, init_ret, on_connected_cb_,
                   on_disconnected_cb_, hook_vars, inbound_vars, core_vars>>

\* One component of Application::Initialize (LED strip, storage, BLE manager,
\* audio source): created, or failed.  BLEManager::Initialize creates the
\* send task and the host task.  On a failure Initialize returns the error,
\* CreateInstance resets s_instance_ and returns it, and app_main logs it and
\* sleeps forever.
InitializeComponent ==
    /\ boot_pc \in {"led", "storage", "ble", "audio"}
    /\ \E ok \in BOOLEAN :
         IF ok
         THEN /\ boot_pc' = AfterInitialize(boot_pc)
              /\ pc' = IF boot_pc = "ble"
                       THEN [pc EXCEPT !["host"] = "sync",
                                       !["send"] = "receive"]
                       ELSE pc
              /\ UNCHANGED <<s_instance_, init_ret>>
         ELSE /\ boot_pc' = "halted"
              /\ s_instance_' = FALSE
              /\ init_ret' = "ESP_FAIL"
              /\ UNCHANGED pc
    /\ UNCHANGED <<unit_vars, limits, on_connected_cb_, on_disconnected_cb_,
                   hook_vars, inbound_vars,
                   cycle, dropped, current_state_,
                   state_mutex_, sequence_number_, led_on_, led, conn_handle_,
                   advertising, send_queue_, new_state_enum, old_state,
                   new_state, gap_event, packet, send_ret, packet_data, built,
                   connects, api_calls, enqueued, dequeued, session_built,
                   rec_k, early, disc_from, c2, deq_connected, notified>>

\* Initialize registers the connected callback with the BLE manager.
SetOnConnectedCallback ==
    /\ boot_pc = "cb_connected"
    /\ boot_pc' = "cb_disconnected"
    /\ on_connected_cb_' = TRUE
    /\ UNCHANGED <<unit_vars, limits, s_instance_, init_ret,
                   on_disconnected_cb_, hook_vars, inbound_vars, core_vars>>

\* Initialize registers the disconnected callback and returns ESP_OK, and so
\* does CreateInstance.
SetOnDisconnectedCallback ==
    /\ boot_pc = "cb_disconnected"
    /\ boot_pc' = "start"
    /\ on_disconnected_cb_' = TRUE
    /\ init_ret' = "ESP_OK"
    /\ UNCHANGED <<unit_vars, limits, s_instance_, on_connected_cb_,
                   hook_vars, inbound_vars, core_vars>>

\* app_main calls Application::Start, which creates the main task.
Start ==
    /\ boot_pc = "start"
    /\ boot_pc' = "started"
    /\ pc' = [pc EXCEPT !["main"] = "start"]
    /\ UNCHANGED <<unit_vars, limits, s_instance_, init_ret,
                   on_connected_cb_, on_disconnected_cb_,
                   hook_vars, inbound_vars,
                   cycle, dropped, current_state_,
                   state_mutex_, sequence_number_, led_on_, led, conn_handle_,
                   advertising, send_queue_, new_state_enum, old_state,
                   new_state, gap_event, packet, send_ret, packet_data, built,
                   connects, api_calls, enqueued, dequeued, session_built,
                   rec_k, early, disc_from, c2, deq_connected, notified>>

\* ------------------------------------------- SetState, statement by statement
\* The tasks that call SetState while the firmware runs on its own.
StateCallers == {"main", "host"}

\* state_mutex_ held until SetState returns, hooks included.
MutexKeptForHooks(t) == t

\* state_mutex_ at the closing brace of the lock_guard block, which comes
\* before the hooks.
MutexAtBlockEnd(t) == "free"

\* old_state->OnExit() called on the state being entered.
ExitedStateNew(old, new) == new

\* The state whose OnExit runs: the one that was replaced.
ExitedState(old, new) == old

\* std::lock_guard<std::mutex> lock(state_mutex_): the caller waits until the
\* mutex is free and takes it.
SetStateLock(t) ==
    /\ pc[t] = "SetState"
    /\ state_mutex_ = "free"
    /\ state_mutex_' = t
    /\ pc' = [pc EXCEPT ![t] = "SetState_locked"]
    /\ hook_log' = [hook_log EXCEPT ![t] = <<>>]
    /\ switched' = [switched EXCEPT ![t] = <<>>]
    /\ UNCHANGED <<unit_vars, limits, boot_vars, adv_ret, inbound_vars,
                   cycle, dropped, current_state_,
                   sequence_number_, led_on_, led, conn_handle_,
                   advertising, send_queue_, new_state_enum, old_state,
                   new_state, gap_event, packet, send_ret, packet_data, built,
                   connects, api_calls, enqueued, dequeued, session_built,
                   rec_k, early, disc_from, c2, deq_connected, notified>>

\* The rest of the block: the comparison with its early return, the choice
\* of the state object, old_state = current_state_, current_state_ =
\* new_state, and the end of the block.
SetStateSwitch(t) ==
    /\ pc[t] = "SetState_locked"
    /\ state_mutex_ = t
    /\ LET target == new_state_enum[t]
           noop == AlreadyInTarget(current_state_, target)
           next == Transition(current_state_, target)
       IN  /\ current_state_' = next
           /\ state_mutex_' = IF noop THEN "free" ELSE MutexAtBlockEnd(t)
           /\ switched' =
                [switched EXCEPT
                   ![t] = IF noop THEN <<>> ELSE <<current_state_, next>>]
           /\ new_state_enum' =
                [new_state_enum EXCEPT ![t] = IF noop THEN NoState ELSE target]
           /\ old_state' = [old_state EXCEPT
                              ![t] = IF noop THEN NoState ELSE current_state_]
           /\ new_state' = [new_state EXCEPT
                              ![t] = IF noop THEN NoState ELSE next]
           /\ pc' = [pc EXCEPT
                       ![t] = IF noop THEN Cont(t) ELSE "SetState_exit"]
           /\ session_built' =
                IF ~noop /\ next = kStreamingAudio THEN 0 ELSE session_built
           /\ disc_from' =
                IF t = "host" /\ gap_event = "disconnect"
                THEN current_state_ ELSE disc_from
           /\ c2' =
                CASE t = "host" /\ gap_event = "connect"
                       /\ current_state_ = kWaitingForConnection ->
                         IF next = kConnectedIdle THEN "armed" ELSE "bad"
                  [] t = "main" /\ noop -> C2AtReturn(c2)
                  [] OTHER -> c2
           /\ gap_event' =
                IF t = "host" /\ noop /\ gap_event = "connect"
                THEN "none" ELSE gap_event
    /\ UNCHANGED <<unit_vars, limits, boot_vars, hook_log, adv_ret,
                   inbound_vars, cycle, dropped, sequence_number_,
                   led_on_, led, conn_handle_, advertising, send_queue_,
                   packet, send_ret, packet_data, built, connects, api_calls,
                   enqueued, dequeued, rec_k, early, deq_connected, notified>>

\* if (old_state) old_state->OnExit(): the hook of StateBase, which no state
\* overrides and which does nothing.
SetStateOnExit(t) ==
    /\ pc[t] = "SetState_exit"
    /\ pc' = [pc EXCEPT ![t] = "SetState_enter"]
    /\ hook_log' =
         [hook_log EXCEPT
            ![t] = Append(@, <<"OnExit",
                               ExitedState(old_state[t], new_state[t])>>)]
    /\ UNCHANGED <<unit_vars, limits, boot_vars, switched, adv_ret,
                   inbound_vars, cycle, dropped, current_state_,
                   state_mutex_, sequence_number_, led_on_, led, conn_handle_,
                   advertising, send_queue_, new_state_enum, old_state,
                   new_state, gap_event, packet, send_ret, packet_data, built,
                   connects, api_calls, enqueued, dequeued, session_built,
                   rec_k, early, disc_from, c2, deq_connected, notified>>

\* if (new_state) new_state->OnEnter(), then SetState returns.  The waiting
\* state's OnEnter calls StartAdvertising when IsAdvertising() is false and
\* logs its result; adv_ret is that result, "none" when it made no call.
SetStateOnEnter(t) ==
    /\ pc[t] = "SetState_enter"
    /\ \E ok \in BOOLEAN :
         LET s == new_state[t]
             calls == s = kWaitingForConnection /\ ~IsAdvertising
         IN  /\ sequence_number_' = SeqAfterOnEnter(s, sequence_number_)
             /\ led' = LedAfterOnEnter(s, led)
             /\ led_on_' = IF s = kFatalError THEN TRUE ELSE led_on_
             /\ advertising' =
                  IF calls THEN StartAdvertising(ok) ELSE advertising
             /\ adv_ret' =
                  CASE s # kWaitingForConnection -> adv_ret
                    [] ~calls -> "none"
                    [] StartAdvertising(ok) -> "ESP_OK"
                    [] OTHER -> "ESP_FAIL"
             /\ hook_log' =
                  [hook_log EXCEPT ![t] = Append(@, <<"OnEnter", s>>)]
    /\ pc' = [pc EXCEPT ![t] = Cont(t)]
    /\ old_state' = [old_state EXCEPT ![t] = NoState]
    /\ new_state' = [new_state EXCEPT ![t] = NoState]
    /\ new_state_enum' = [new_state_enum EXCEPT ![t] = NoState]
    /\ gap_event' =
         IF t = "host" /\ gap_event = "connect" THEN "none" ELSE gap_event
    /\ c2' = IF t = "main" THEN C2AtReturn(c2) ELSE c2
    /\ UNCHANGED <<unit_vars, limits, boot_vars, switched, inbound_vars,
                   cycle, dropped, current_state_,
                   state_mutex_, conn_handle_, send_queue_, packet, send_ret,
                   packet_data, built, connects, api_calls, enqueued,
                   dequeued, session_built, rec_k, early, disc_from,
                   deq_connected, notified>>

\* --------------------------------------------------------- specifications
MainSetStateCrit == SetStateCrit("main")
MainSetStateHooks == SetStateHooks("main")
HostSetStateCrit == SetStateCrit("host")
HostSetStateHooks == SetStateHooks("host")
ApiSetStateCrit == SetStateCrit("api")
ApiSetStateHooks == SetStateHooks("api")

\* The firmware as it runs: main task, host task, send task.
Next ==
    \/ RunMainTask
    \/ WaitingExecute
    \/ ConnectedIdleExecute
    \/ StreamingDispatch
    \/ StreamingCheck
    \/ StreamingAudioFail
    \/ StreamingBuild
    \/ SendAudioPacket
    \/ MainSetStateCrit
    \/ MainSetStateHooks
    \/ OnSync
    \/ GapConnect
    \/ GapDisconnect
    \/ GapDisconnectRestart
    \/ HostSetStateCrit
    \/ HostSetStateHooks
    \/ SendTaskReceive
    \/ SendTaskCheck
    \/ SendTaskNotify

Spec == Init /\ [][Next]_vars

\* A streaming session that has already produced SeqNearWrap records: the
\* state the firmware is in after that many Execute calls of one session
\* with the send task keeping up.
SeqNearWrap == SeqModulus - 2

InitWrap ==
    /\ record_limit = MaxRecords
    /\ connect_limit = MaxConnects
    /\ fail_limit = 0
    /\ trace_notify = FALSE
    /\ trace_cycle = FALSE
    /\ current_state_ = kStreamingAudio
    /\ state_mutex_ = "free"
    /\ sequence_number_ = SeqNearWrap
    /\ led_on_ = FALSE
    /\ led = <<0, 64, 0>>
    /\ \E h \in ConnHandles : conn_handle_ = h
    /\ advertising = FALSE
    /\ send_queue_ = <<>>
    /\ pc = [t \in Tasks |->
               CASE t = "main" -> "loop"
                 [] t = "send" -> "receive"
                 [] OTHER -> "idle"]
    /\ new_state_enum = [t \in Callers |-> NoState]
    /\ old_state = [t \in Callers |-> NoState]
    /\ new_state = [t \in Callers |-> NoState]
    /\ gap_event = "none"
    /\ packet = NoPacket
    /\ send_ret = "ESP_OK"
    /\ packet_data = NoFrame
    /\ built = 0
    /\ connects = 1
    /\ api_calls = 0
    /\ enqueued = <<>>
    /\ dequeued = <<>>
    /\ session_built = SeqNearWrap
    /\ rec_k = 0
    /\ early = NoState
    /\ disc_from = NoState
    /\ c2 = "none"
    /\ deq_connected = FALSE
    /\ notified = <<>>
    /\ cycle = "none"
    /\ dropped = {}
    /\ hook_log = [t \in Callers |-> <<>>]
    /\ switched = [t \in Callers |-> <<>>]
    /\ adv_ret = "none"
    /\ on_audio_packet_received_cb_ = FALSE
    /\ received = <<>>
    /\ gatt_writes = 0
    /\ Started
    /\ UnitOff

\* The firmware from construction or from deep inside a streaming session.
SpecSeq == (Init \/ InitWrap) /\ [][Next]_vars

\* The same firmware with a link whose notify primitive can fail.
InitNotify ==
    /\ Constructed
    /\ UnitOff
    /\ record_limit = MaxNotifyRecords
    /\ connect_limit = MaxNotifyConnects
    /\ fail_limit = MaxNotifyFailures
    /\ trace_notify = TRUE
    /\ trace_cycle = FALSE

SpecNotify == InitNotify /\ [][Next]_vars

\* The same firmware with the outcome of every streaming cycle kept.
InitStream ==
    /\ Constructed
    /\ UnitOff
    /\ record_limit = MaxStreamRecords
    /\ connect_limit = MaxStreamConnects
    /\ fail_limit = 0
    /\ trace_notify = FALSE
    /\ trace_cycle = TRUE

SpecStream == InitStream /\ [][Next]_vars

\* The firmware with a peer that writes to the audio characteristic and a
\* user of the link that may register a receive callback.
InitInbound ==
    /\ Constructed
    /\ UnitOff
    /\ record_limit = MaxInboundRecords
    /\ connect_limit = MaxInboundConnects
    /\ fail_limit = 0
    /\ trace_notify = FALSE
    /\ trace_cycle = FALSE

NextInbound ==
    \/ Next
    \/ SetOnAudioPacketReceivedCallback
    \/ GattAccessCallback

SpecInbound == InitInbound /\ [][NextInbound]_vars

\* The firmware from the call of Application::CreateInstance in app_main:
\* no Application object and no task yet, every component may fail to
\* initialise, and SetState runs statement by statement.
InitBoot ==
    /\ boot_pc = "app_main"
    /\ s_instance_ = FALSE
    /\ init_ret = "none"
    /\ on_connected_cb_ = FALSE
    /\ on_disconnected_cb_ = FALSE
    /\ Fresh
    /\ pc = [t \in Tasks |-> IF t = "api" THEN "idle" ELSE "none"]
    /\ UnitOff
    /\ record_limit = MaxBootRecords
    /\ connect_limit = MaxBootConnects
    /\ fail_limit = 0
    /\ trace_notify = FALSE
    /\ trace_cycle = FALSE

NextBoot ==
    \/ CreateInstance
    \/ InitializeComponent
    \/ SetOnConnectedCallback
    \/ SetOnDisconnectedCallback
    \/ Start
    \/ RunMainTask
    \/ WaitingExecute
    \/ ConnectedIdleExecute
    \/ StreamingDispatch
    \/ StreamingCheck
    \/ StreamingAudioFail
    \/ StreamingBuild
    \/ SendAudioPacket
    \/ \E t \in StateCallers : SetStateLock(t)
    \/ \E t \in StateCallers : SetStateSwitch(t)
    \/ \E t \in StateCallers : SetStateOnExit(t)
    \/ \E t \in StateCallers : SetStateOnEnter(t)
    \/ OnSync
    \/ GapConnect
    \/ GapDisconnect
    \/ GapDisconnectRestart
    \/ SendTaskReceive
    \/ SendTaskCheck
    \/ SendTaskNotify

SpecBoot == InitBoot /\ [][NextBoot]_vars

\* The steps of each FreeRTOS task.  The arrival of a GAP connect or
\* disconnect event is the peer's step and belongs to no task.
AppMainStep ==
    \/ CreateInstance
    \/ InitializeComponent
    \/ SetOnConnectedCallback
    \/ SetOnDisconnectedCallback
    \/ Start

\* SendAudioPacket as the scheduler sees it: the call is made and returns.
\* It can be taken exactly when SendAudioPacket can, and within NextBoot
\* only SendAudioPacket takes it; fairness is stated on it to spare ENABLED
\* the encoding of the frame.
SendAudioPacketReturns ==
    /\ pc["main"] = "stream_send"
    /\ pc' = [pc EXCEPT !["main"] = AfterSend(SendResult(send_queue_))]

MainTaskStep ==
    \/ RunMainTask
    \/ WaitingExecute
    \/ ConnectedIdleExecute
    \/ StreamingDispatch
    \/ StreamingCheck
    \/ StreamingAudioFail
    \/ StreamingBuild
    \/ SetStateLock("main")
    \/ SetStateSwitch("main")
    \/ SetStateOnExit("main")
    \/ SetStateOnEnter("main")

HostTaskStep ==
    \/ OnSync
    \/ GapDisconnectRestart
    \/ SetStateLock("host")
    \/ SetStateSwitch("host")
    \/ SetStateOnExit("host")
    \/ SetStateOnEnter("host")

SendTaskStep ==
    \/ SendTaskReceive
    \/ SendTaskCheck
    \/ SendTaskNotify

\* The same start, with the limits of the fair runs.
InitLive ==
    /\ boot_pc = "app_main"
    /\ s_instance_ = FALSE
    /\ init_ret = "none"
    /\ on_connected_cb_ = FALSE
    /\ on_disconnected_cb_ = FALSE
    /\ Fresh
    /\ pc = [t \in Tasks |-> IF t = "api" THEN "idle" ELSE "none"]
    /\ UnitOff
    /\ record_limit = MaxLiveRecords
    /\ connect_limit = MaxLiveConnects
    /\ fail_limit = 0
    /\ trace_notify = FALSE
    /\ trace_cycle = FALSE

\* The same firmware under the FreeRTOS scheduler: a task that can run is
\* eventually run.
SpecLive ==
    /\ InitLive
    /\ [][NextBoot]_vars
    /\ WF_vars(AppMainStep)
    /\ WF_vars(MainTaskStep)
    /\ WF_pc(SendAudioPacketReturns)
    /\ WF_vars(HostTaskStep)
    /\ WF_vars(SendTaskStep)

\* The same firmware, with limits under which the transport queue fills.
SpecQueue == InitQueue /\ [][Next]_vars

\* The firmware plus a caller of the public SetState with arbitrary targets.
NextApi ==
    \/ Next
    \/ FatalErrorExecute
    \/ ApiSetState
    \/ ApiSetStateCrit
    \/ ApiSetStateHooks

SpecApi == InitApi /\ [][NextApi]_vars

TypeOK ==
    /\ current_state_ \in AppState \ {kInitializing}
    /\ state_mutex_ \in Callers \cup {"free"}
    /\ sequence_number_ \in 0..(SeqModulus - 1)
    /\ led_on_ \in BOOLEAN
    /\ conn_handle_ \in ConnHandles \cup {BLE_HS_CONN_HANDLE_NONE}
    /\ advertising \in BOOLEAN
    /\ built \in 0..record_limit
    /\ connects \in 0..connect_limit
    /\ deq_connected \in BOOLEAN
    /\ cycle \in {"none", "disconnected", "audio_failed", "sent", "dropped"}
    /\ boot_pc \in {"app_main", "led", "storage", "ble", "audio",
                    "cb_connected", "cb_disconnected", "start", "started",
                    "halted"}
    /\ s_instance_ \in BOOLEAN
    /\ init_ret \in {"none", "ESP_OK", "ESP_FAIL"}
    /\ on_connected_cb_ \in BOOLEAN
    /\ on_disconnected_cb_ \in BOOLEAN
    /\ adv_ret \in {"none", "ESP_OK", "ESP_FAIL"}
    /\ on_audio_packet_received_cb_ \in BOOLEAN
    /\ gatt_writes \in 0..MaxInboundWrites
    /\ Len(received) <= gatt_writes
    /\ NotifyFailures(notified) \in 0..fail_limit
    /\ unit_pc \in {"off", "codec", "encoded", "received", "decoded",
                    "feature", "read", "nothing", "computed", "read_done"}
    /\ dec_ret \in BOOLEAN
    /\ dec_at \in {"none", "size", "sync", "checksum", "ok"}
    /\ dec_reads \subseteq 1..Len(om_data)
    /\ Len(om_data) \in 0..MaxBufferLen
    /\ feature_out \in -1..kInt8Max
    /\ dest_size \in 0..(2 * kMaxAudioSamples)
    /\ read_ret \in {"none", "ESP_OK", "ESP_ERR_INVALID_ARG",
                     "ESP_ERR_TIMEOUT"}
    /\ feature_ret \in {"none", "ESP_OK", "ESP_ERR_TIMEOUT"}
    /\ samples_read \in 0..kMaxAudioSamples
    /\ Len(frame_buffer) \in 0..kMaxAudioSamples
    /\ i2s_reads \in 0..2

\* ------------------------------------------------------------------ claims
\* A task's SetState call leaves the locked block in this step.
LeavesCrit(t) == pc[t] = "SetState" /\ pc'[t] # "SetState"

\* C1: FatalError is terminal: once current_state_ is kFatalError, no later
\* step (a SetState with any target, a Connected or a Disconnected event)
\* changes it.
C1_FatalErrorTerminal ==
    [][current_state_ = kFatalError => current_state_' = kFatalError]_vars

\* C2: a Connected event handled in WaitingForConnection makes the state
\* ConnectedIdle at once, and when the next Execute call of the main loop
\* returns the state is Streaming, unless a Disconnected event came between.
C2_ConnectedThenStreaming ==
    /\ c2 # "bad"
    /\ c2 = "done" => current_state_ = kStreamingAudio

\* C3: when the SetState call of a Disconnected event handled in a state
\* other than FatalError returns, current_state_ is kWaitingForConnection.
C3_DisconnectedLeavesWaiting ==
    [][(/\ pc["host"] \in {"SetState", "SetState_hooks"}
        /\ gap_event = "disconnect"
        /\ pc'["host"] = "readv"
        /\ disc_from' # kFatalError)
       => current_state_' = kWaitingForConnection]_vars

\* C4: the k-th record built within one streaming session carries sequence
\* (k - 1) mod 65536, so the values run 0, 1, 2, ... and wrap after 65535.
C4_SessionSequence ==
    (pc["main"] = "stream_send" /\ rec_k > 0)
        => packet.sequence = (rec_k - 1) % SeqModulus

\* C4 witness: the record after the one numbered 65535 has just been built.
C4_Witness ==
    /\ pc["main"] = "stream_send"
    /\ rec_k = SeqModulus + 1
    /\ packet.sequence = 0

\* C5: every entry into Streaming resets the counter before a record of the
\* session is built: while the session has no record the counter is 0, and
\* the first record of every session carries sequence 0.
C5_ResetOnEntry ==
    /\ (/\ pc["main"] \in {"stream_check", "stream_audio"}
        /\ current_state_ = kStreamingAudio
        /\ session_built = 0) => sequence_number_ = 0
    /\ (pc["main"] = "stream_send" /\ rec_k = 1) => packet.sequence = 0

\* C5 witness: the first record of a later session, built after an earlier
\* session had advanced the counter.
C5_Witness ==
    /\ pc["main"] = "stream_send"
    /\ rec_k = 1
    /\ built >= 2
    /\ packet.sequence = 0

\* C6: a SetState whose target is the current state returns from the locked
\* block without scheduling OnExit / OnEnter and changes neither the current
\* state nor the sequence counter (nor anything else the hooks write).
C6_SelfTransitionNoOp ==
    [][\A t \in Callers :
         (LeavesCrit(t) /\ new_state_enum[t] = current_state_)
            => /\ pc'[t] # "SetState_hooks"
               /\ current_state_' = current_state_
               /\ sequence_number_' = sequence_number_
               /\ led' = led
               /\ led_on_' = led_on_
               /\ advertising' = advertising]_vars

\* C6 witness: a request for Streaming made in Streaming has returned early
\* and the counter of the running session is still above 0.
C6_Witness ==
    /\ early = kStreamingAudio
    /\ current_state_ = kStreamingAudio
    /\ sequence_number_ > 0

\* C7: a SetState naming kUninitialized or kInitializing (and not the current
\* state) sets the current state to kFatalError.
C7_UnknownTargetIsFatal ==
    [][\A t \in Callers :
         (/\ LeavesCrit(t)
          /\ new_state_enum[t] \in {kUninitialized, kInitializing}
          /\ new_state_enum[t] # current_state_)
            => current_state_' = kFatalError]_vars

\* C7 witness: a request naming kInitializing has switched to FatalError.
C7_Witness ==
    /\ pc["api"] = "SetState_hooks"
    /\ new_state_enum["api"] = kInitializing
    /\ old_state["api"] # kFatalError
    /\ current_state_ = kFatalError

\* The ids of the frames in the queue, oldest first.
QueueIds == [i \in 1..Len(send_queue_) |-> send_queue_[i].id]

\* C8: exact FIFO: the frames the send task has taken, followed by the frames
\* still queued, are the frames stored, in the order they were stored; so no
\* frame is overtaken, merged or taken twice.
C8_Fifo ==
    /\ dequeued \o QueueIds = enqueued
    /\ \A i, j \in 1..Len(enqueued) : i < j => enqueued[i] < enqueued[j]

\* C8 witness: frames have been taken while later ones wait.
C8_Witness ==
    /\ Len(dequeued) >= 2
    /\ Len(send_queue_) >= 2

\* C9: SendAudioPacket finishing on a queue of 10 frames returns the timeout
\* error and leaves the queue as it was.
C9_QueueFull ==
    [][(/\ pc["main"] = "stream_send"
        /\ pc'["main"] # "stream_send"
        /\ Len(send_queue_) = QueueLength)
       => /\ send_ret' = "ESP_ERR_TIMEOUT"
          /\ send_queue_' = send_queue_]_vars

\* C9 witness: the 11th frame was refused and 10 frames are queued.
C9_Witness ==
    /\ send_ret = "ESP_ERR_TIMEOUT"
    /\ Len(send_queue_) = QueueLength
    /\ built = QueueLength + 1
    /\ Len(enqueued) = QueueLength

\* C10: the queue never holds more than 10 frames.
C10_QueueBounded == Len(send_queue_) \in 0..QueueLength

\* C10 witness: the queue is full while the main task has one more frame.
C10_Witness ==
    /\ Len(send_queue_) = QueueLength
    /\ pc["main"] = "stream_send"

\* ids of the frames offered to the link's notify primitive so far
NotifiedIds == {notified[i].id : i \in 1..Len(notified)}

C12_NotifyFailureNotRetried ==
    /\ \A i, j \in 1..Len(notified) :
         i # j => notified[i].id # notified[j].id
    /\ \A i \in 1..Len(notified) :
         notified[i].rc # 0 =>
           /\ packet_data.id # notified[i].id
           /\ \A k \in 1..Len(send_queue_) :
                send_queue_[k].id # notified[i].id

\* C12 witness: after a failed notify, a later frame was dequeued and
\* delivered.
C12_Witness ==
    \E i, j \in 1..Len(notified) :
       /\ i < j
       /\ notified[i].rc # 0
       /\ notified[j].rc = 0
       /\ notified[j].id > notified[i].id

\* bit number b of the byte v
BitOf(v, b) == (v \div (2 ^ b)) % 2

\* Byte 9 of a ten-byte buffer is the XOR of bytes 0..8: in every bit
\* position the number of set bits among bytes 0..8 has the parity of the
\* bit in byte 9.
XorHolds(buf) ==
    \A b \in 0..7 :
       (BitOf(buf[1], b) + BitOf(buf[2], b) + BitOf(buf[3], b)
        + BitOf(buf[4], b) + BitOf(buf[5], b) + BitOf(buf[6], b)
        + BitOf(buf[7], b) + BitOf(buf[8], b) + BitOf(buf[9], b)) % 2
       = BitOf(buf[10], b)

\* the two records agree on header, type, sequence, timestamp and payload
SameRecord(a, b) ==
    /\ a.header = b.header
    /\ a.data_type = b.data_type
    /\ a.sequence = b.sequence
    /\ a.timestamp = b.timestamp
    /\ a.payload = b.payload

\* C13: round trip. Decode of the buffer Encode produced for a record whose
\* header is the sync byte returns true, and the record it fills in has the
\* header, type, sequence, timestamp and payload of the record encoded.
C13_RoundTrip ==
    (/\ unit_pc = "decoded"
     /\ om_data = Encode(record_in)
     /\ record_in.header = kHeaderSync)
    => /\ dec_ret
       /\ SameRecord(dec_packet, record_in)

\* C13 witness: a record with a negative payload, a timestamp with every bit
\* set and the largest sequence number has made the round trip.
C13_Witness ==
    /\ unit_pc = "decoded"
    /\ om_data = Encode(record_in)
    /\ record_in.header = kHeaderSync
    /\ record_in.payload < 0
    /\ record_in.timestamp = Uint32(65535, 65535)
    /\ record_in.sequence = 65535
    /\ dec_ret

\* C14: Decode accepts a buffer exactly when its length is 10, byte 0 is
\* 0xAA and byte 9 is the XOR of bytes 0..8; the length is checked first,
\* then the sync byte, then the checksum.
C14_AcceptsIffValid ==
    unit_pc = "decoded" =>
      /\ dec_ret <=> (/\ Len(om_data) = 10
                      /\ om_data[1] = 170
                      /\ XorHolds(om_data))
      /\ Len(om_data) # 10 => dec_at = "size"
      /\ (Len(om_data) = 10 /\ om_data[1] # 170) => dec_at = "sync"
      /\ (Len(om_data) = 10 /\ om_data[1] = 170 /\ ~XorHolds(om_data))
           => dec_at = "checksum"

\* C14 witness: a ten-byte buffer whose checksum is right and whose sync
\* byte is wrong has been rejected.
C14_Witness ==
    /\ unit_pc = "decoded"
    /\ Len(om_data) = 10
    /\ om_data[1] # 170
    /\ XorHolds(om_data)
    /\ ~dec_ret

\* C15: a buffer whose length is not 10 is rejected by the length check,
\* before any byte of it is read.
C15_LengthMismatch ==
    (unit_pc = "decoded" /\ Len(om_data) # 10)
    => /\ ~dec_ret
       /\ dec_at = "size"
       /\ dec_reads = {}

\* C15 witness: a buffer longer than a frame has been rejected.
C15_Witness ==
    /\ unit_pc = "decoded"
    /\ Len(om_data) > 10
    /\ ~dec_ret

\* C16 (as amended): a valid frame with one bit inverted is always
\* rejected, by the sync check when the bit is in byte 0 and by the checksum
\* check when it is in bytes 1..9; no inverted bit, in byte 9 or elsewhere,
\* leaves the frame acceptable.
C16_SingleBitFlipRejected ==
    (/\ unit_pc = "decoded"
     /\ flipped # <<>>
     /\ record_in.header = kHeaderSync)
    => /\ ~dec_ret
       /\ dec_at = IF flipped[1] = 1 THEN "sync" ELSE "checksum"

\* C16 witness: a frame with a bit of byte 9 inverted has been rejected.
C16_Witness ==
    /\ unit_pc = "decoded"
    /\ flipped # <<>>
    /\ flipped[1] = kPacketSize
    /\ record_in.header = kHeaderSync
    /\ dec_at = "checksum"

\* C16 (as stated): a valid frame with one bit inverted is rejected by the
\* checksum check, unless the bit is in byte 9 and the XOR still holds.
C16_SingleBitFlipChecksumMismatch ==
    (/\ unit_pc = "decoded"
     /\ flipped # <<>>
     /\ record_in.header = kHeaderSync)
    => \/ ~dec_ret /\ dec_at = "checksum"
       \/ flipped[1] = 10 /\ XorHolds(om_data)

\* the record of the concrete scenario
ScenarioRecord ==
    [header |-> 170, data_type |-> 1, sequence |-> 1,
     timestamp |-> Uint32(0, 1000), payload |-> 42, checksum |-> 0]

\* its frame: 0xAA 0x01 0x00 0x01 0x00 0x00 0x03 0xE8 0x2A and their XOR
ScenarioFrame == <<170, 1, 0, 1, 0, 0, 3, 232, 42, 107>>

\* C17: Encode writes ten bytes: header, type, sequence high byte first,
\* timestamp highest byte first, payload, and the XOR of those nine; the
\* scenario record encodes to the scenario frame, and decoding that frame
\* gives the record back.
C17_EncodeLayout ==
    /\ unit_pc = "encoded" =>
         /\ Len(om_data) = 10
         /\ \A i \in 1..10 : om_data[i] \in 0..255
         /\ om_data[1] = record_in.header
         /\ om_data[2] = record_in.data_type
         /\ om_data[3] * 256 + om_data[4] = record_in.sequence
         /\ om_data[5] * 256 + om_data[6] = record_in.timestamp.hi
         /\ om_data[7] * 256 + om_data[8] = record_in.timestamp.lo
         /\ om_data[9] = (record_in.payload + 256) % 256
         /\ XorHolds(om_data)
    /\ (unit_pc = "encoded" /\ record_in = ScenarioRecord)
         => om_data = ScenarioFrame
    /\ (unit_pc = "decoded" /\ om_data = ScenarioFrame)
         => dec_ret /\ SameRecord(dec_packet, ScenarioRecord)

\* C17 witness: the scenario record has been encoded and decoded again.
C17_Witness ==
    /\ unit_pc = "decoded"
    /\ record_in = ScenarioRecord
    /\ om_data = ScenarioFrame
    /\ dec_ret

\* every sample of the frame is v
AllSamples(frame, v) == \A i \in 1..Len(frame) : frame[i] = v

\* C18 (as stated): a frame in which every sample is 32767, or every sample
\* is -32768, gives the feature 127.
C18_MaxAmplitudeIs127 ==
    (/\ unit_pc = "computed"
     /\ AllSamples(frame_buffer, 32767) \/ AllSamples(frame_buffer, -32768))
    => feature_out = 127

\* the sum of the squares of the samples, as <<multiples of 65536, rest>>
SumOfSquares(frame) ==
    LET n == Len(frame)
        high == [i \in 1..n |-> (frame[i] * frame[i]) \div 65536]
        low == SumOver([i \in 1..n |-> (frame[i] * frame[i]) % 65536], 1, n)
    IN  <<SumOver(high, 1, n) + low \div 65536, low % 65536>>

\* the sum of squares of f is at most that of g
SumOfSquaresLeq(f, g) ==
    LET a == SumOfSquares(f)
        b == SumOfSquares(g)
    IN  a[1] < b[1] \/ (a[1] = b[1] /\ a[2] <= b[2])

\* The RMS of the frame is at or below the reference floor 20: the sum of
\* the squares is at most 400 times the number of samples.
AtOrBelowFloor(frame) ==
    LET sum == SumOfSquares(frame)
        floor == 400 * Len(frame)
    IN  \/ sum[1] < floor \div 65536
        \/ sum[1] = floor \div 65536 /\ sum[2] <= floor % 65536

\* C19: the feature of a frame lies in 0..127, and it is 0 for a frame of
\* zeros and for every frame whose RMS is at or below the reference floor.
C19_FeatureRange ==
    unit_pc = "computed" =>
      /\ feature_out \in 0..127
      /\ AllSamples(frame_buffer, 0) => feature_out = 0
      /\ AtOrBelowFloor(frame_buffer) => feature_out = 0

\* C19 witness: a frame that is not silent and whose RMS is exactly the
\* reference floor has the feature 0.
C19_Witness ==
    /\ unit_pc = "computed"
    /\ \A i \in 1..Len(frame_buffer) : frame_buffer[i] \in {20, -20}
    /\ feature_out = 0

\* C20: among frames of one length the feature does not decrease when the
\* sum of the squared samples grows.
C20_MonotoneInRms ==
    unit_pc = "computed" =>
      \A g \in FeatureFrames :
         (Len(g) = Len(frame_buffer) /\ SumOfSquaresLeq(g, frame_buffer))
         => FeatureOf(g) <= feature_out

\* C20 witness: a frame with a larger sum of squares than another of its
\* length has a larger feature than it.
C20_Witness ==
    /\ unit_pc = "computed"
    /\ \E g \in FeatureFrames :
         /\ Len(g) = Len(frame_buffer)
         /\ SumOfSquaresLeq(g, frame_buffer)
         /\ 0 < FeatureOf(g)
         /\ FeatureOf(g) < feature_out

\* C21: a GetFeature call whose Read succeeds with zero samples sets the
\* feature to 0 and returns ESP_OK; a Read call for more than
\* kMaxAudioSamples samples returns ESP_ERR_INVALID_ARG without calling
\* i2s_channel_read and without writing the destination or samples_read.
C21_ZeroFrameAndOversize ==
    [][/\ (/\ unit_pc = "feature"
           /\ unit_pc' = "nothing"
           /\ read_ret' = "ESP_OK"
           /\ samples_read' = 0)
          => (feature_out' = 0 /\ feature_ret' = "ESP_OK")
       /\ (unit_pc' = "read_done" /\ dest_size' > kMaxAudioSamples)
          => /\ read_ret' = "ESP_ERR_INVALID_ARG"
             /\ UNCHANGED <<frame_buffer, samples_read, i2s_reads>>]_vars

\* GetFeature has answered a zero-sample frame, and after it a Read for 257
\* samples has returned with the caller's variables as they were.
C21_Witness ==
    /\ unit_pc = "read_done"
    /\ feature_ret = "ESP_OK"
    /\ feature_out = 0
    /\ i2s_reads = 1
    /\ dest_size = kMaxAudioSamples + 1
    /\ read_ret = "ESP_ERR_INVALID_ARG"
    /\ samples_read = 0
    /\ frame_buffer = <<>>

\* limb i of an accumulator, 0 beyond its width
LimbAt(acc, i) == IF i <= Len(acc) THEN acc[i] ELSE 0

\* C30: for every frame of at most kMaxAudioSamples samples of int16_t,
\* each square fits int32_t and sum_of_squares holds the sum of the squares
\* exactly, as a non-negative int64_t: nothing was lost to a carry out of
\* the accumulator and its sign bit is clear.
C30_AccumulatorExact ==
    unit_pc = "computed" =>
      /\ Len(frame_buffer) <= kMaxAudioSamples
      /\ \A i \in 1..Len(frame_buffer) :
           /\ frame_buffer[i] \in -32768..32767
           /\ Square(frame_buffer[i]) \in 0..2147483647
      /\ LET sum == SumOfSquares(frame_buffer)
         IN  /\ LimbAt(sum_of_squares, 1) = sum[2]
             /\ LimbAt(sum_of_squares, 2) = sum[1] % 65536
             /\ LimbAt(sum_of_squares, 3) = sum[1] \div 65536
             /\ LimbAt(sum_of_squares, 4) = 0

\* The largest sum there is, 256 * 2^30 = 2^38, has been accumulated.
C30_Witness ==
    /\ unit_pc = "computed"
    /\ Len(frame_buffer) = kMaxAudioSamples
    /\ AllSamples(frame_buffer, -32768)
    /\ sum_of_squares = <<0, 0, 64, 0>>

\* The main task leaves the GetFeature call of Execute without a record:
\* GetFeature has failed.
AudioFailStep ==
    /\ pc["main"] = "stream_audio"
    /\ pc'["main"] # "stream_audio"
    /\ built' = built

\* C24: when GetFeature fails in StreamingState::Execute, the call returns
\* to the main loop with the state, the sequence counter, the record, the
\* queue and the send result as they were: nothing is built or enqueued, and
\* the loop calls Execute again.
C24_AudioFailureDropsCycle ==
    [][AudioFailStep =>
         /\ pc'["main"] = "loop"
         /\ UNCHANGED <<current_state_, sequence_number_, packet, built,
                        session_built, send_queue_, enqueued, send_ret>>]_vars

\* The first cycle of a session failed to read audio; the device is still
\* streaming, with nothing built or sent, and the next cycle is at its
\* GetFeature call.
C24_Witness ==
    /\ cycle = "audio_failed"
    /\ pc["main"] = "stream_audio"
    /\ current_state_ = kStreamingAudio
    /\ built = 0
    /\ sequence_number_ = 0
    /\ send_queue_ = <<>>

\* ids of the frames in a sequence of ids
IdsOf(ids) == {ids[i] : i \in 1..Len(ids)}

\* The main task ends a SendAudioPacket call on a full queue.
TimeoutStep ==
    /\ pc["main"] = "stream_send"
    /\ Len(send_queue_) = QueueLength
    /\ <<pc["main"], send_ret, cycle, packet>>'
         # <<pc["main"], send_ret, cycle, packet>>

\* C25: a frame whose SendAudioPacket timed out is in no queue and no log
\* of enqueued, dequeued or notified frames, then or later; the timeout
\* leaves the state and the queue as they were and returns to the main
\* loop without the record, and the record built next is a new one with
\* the next id.
C25_DroppedFrameNeverSent ==
    [][/\ TimeoutStep =>
            /\ send_ret' = "ESP_ERR_TIMEOUT"
            /\ built \in dropped'
            /\ pc'["main"] = "loop"
            /\ packet' = NoPacket
            /\ UNCHANGED <<send_queue_, enqueued, current_state_>>
       /\ dropped' \cap (IdsOf(enqueued') \cup IdsOf(dequeued')
                         \cup IdsOf(QueueIds') \cup {packet_data'.id}) = {}
       /\ (pc["main"] = "stream_audio" /\ pc'["main"] = "stream_send") =>
            /\ built' = built + 1
            /\ built' \notin dropped
            /\ packet' # NoPacket]_vars

\* A frame was dropped on a full queue; later the worker made room and a
\* record built after it was enqueued.
C25_Witness ==
    /\ dropped # {}
    /\ cycle = "sent"
    /\ \E d \in dropped : \E i \in 1..Len(send_queue_) :
         send_queue_[i].id > d
    /\ current_state_ = kStreamingAudio

\* The main task leaves the connectivity check of Execute with the link
\* down.
DisconnectedCheckStep ==
    /\ pc["main"] = "stream_check"
    /\ pc'["main"] # "stream_check"
    /\ ~IsConnected

\* C28: when the link reports no connection at the check that opens
\* StreamingState::Execute, the call requests kWaitingForConnection and
\* builds no record, leaves the sequence counter and the queue alone, and
\* does not reach the GetFeature call; the SetState call it makes returns
\* to the main loop.
C28_DisconnectedExecute ==
    [][/\ DisconnectedCheckStep =>
            /\ pc'["main"] = "SetState"
            /\ new_state_enum'["main"] = kWaitingForConnection
            /\ UNCHANGED <<packet, sequence_number_, built, send_queue_,
                           enqueued, send_ret>>
       /\ (pc["main"] \in {"SetState", "SetState_hooks"}
           /\ pc'["main"] # pc["main"]) =>
            /\ pc'["main"] \in {"SetState_hooks", "loop"}
            /\ UNCHANGED <<packet, built, send_queue_, enqueued,
                           send_ret>>]_vars

\* After at least one record of the session was sent, an Execute call
\* found the link down and is back in the main loop.
C28_Witness ==
    /\ cycle = "disconnected"
    /\ pc["main"] = "loop"
    /\ built >= 1
    /\ Len(enqueued) = built

\* A frame the decoder has to accept: ten bytes, the sync byte first, the
\* XOR of the first nine in the tenth.
ValidFrame(b) ==
    /\ Len(b) = kPacketSize
    /\ b[1] = kHeaderSync
    /\ XorHolds(b)

\* the record r holds the fields of the frame b, big-endian
RecordOfFrame(r, b) ==
    /\ r.header = b[1]
    /\ r.data_type = b[2]
    /\ r.sequence = b[3] * 256 + b[4]
    /\ r.timestamp = Uint32(b[5] * 256 + b[6], b[7] * 256 + b[8])
    /\ (r.payload + 256) % 256 = b[9]
    /\ r.payload \in -128..127

\* C26: a write whose bytes Decode rejects leaves the log of callback calls,
\* current_state_, the transport queue and every task where they were; and
\* each call of the receive callback is for the write being handled, whose
\* bytes are a valid frame, with the record those bytes hold.
C26_MalformedWriteDiscarded ==
    [][/\ (gatt_writes' # gatt_writes /\ ~dec_ret') =>
            UNCHANGED <<received, core_vars>>
       /\ received' # received =>
            /\ gatt_writes' # gatt_writes
            /\ Len(received') = Len(received) + 1
            /\ SubSeq(received', 1, Len(received)) = received
            /\ LET last == received'[Len(received')]
               IN  /\ last.bytes = om_data'
                   /\ ValidFrame(last.bytes)
                   /\ RecordOfFrame(last.packet, last.bytes)]_vars

\* With a callback set, a valid write has been delivered and a corrupted
\* one after it has been discarded.
C26_Witness ==
    /\ on_audio_packet_received_cb_
    /\ gatt_writes = 2
    /\ Len(received) = 1
    /\ ~dec_ret
    /\ Len(om_data) = kPacketSize
    /\ dec_at = "checksum"


\* A task returns from the OnEnter hook of the waiting state.
WaitingOnEnterStep(t) ==
    /\ pc[t] = "SetState_enter"
    /\ pc'[t] # "SetState_enter"
    /\ new_state[t] = kWaitingForConnection

\* The OnEnter hook of the waiting state called StartAdvertising exactly
\* when the link was not advertising.
EnsuresAdvertising ==
    [][\A t \in StateCallers :
         WaitingOnEnterStep(t) => ((adv_ret' # "none") <=> ~advertising)]_vars

\* C22: on entry to WaitingForConnection StartAdvertising is called exactly
\* when IsAdvertising() is false, and when it fails the caller of the
\* initialization has an error, not ESP_OK.
C22_AdvertisingFailurePropagated ==
    [][\A t \in StateCallers :
         WaitingOnEnterStep(t)
         => /\ (adv_ret' # "none") <=> ~advertising
            /\ adv_ret' = "ESP_FAIL" => init_ret' # "ESP_OK"]_vars

\* After a failed initialization no state of the run is FatalError.
NeverFatalAfterInitFailure ==
    init_ret = "ESP_FAIL" => current_state_ # kFatalError

\* C23: when a component fails during Application initialization the device
\* is in the FatalError state once initialization is over.
C23_InitFailureIsFatal ==
    boot_pc = "halted" => (s_instance_ /\ current_state_ = kFatalError)


\* The positions of a SetState call after its locked block.
InHooks == {"SetState_exit", "SetState_enter"}

\* C27: state_mutex_ is held only inside the locked block of SetState: a
\* task that is in OnExit or OnEnter does not hold it, and a transition
\* requested by another task while a hook runs finds it free.
C27_HooksRunUnlocked ==
    \A t \in StateCallers :
       /\ pc[t] \in InHooks => state_mutex_ # t
       /\ state_mutex_ = t => pc[t] = "SetState_locked"
       /\ \A u \in StateCallers \ {t} :
            (pc[t] \in InHooks /\ pc[u] = "SetState")
            => state_mutex_ = "free"

\* The host task has taken the lock for its own transition while the main
\* task is inside a hook.
C27_Witness ==
    /\ pc["main"] \in InHooks
    /\ pc["host"] = "SetState_locked"
    /\ state_mutex_ = "host"

\* The hooks one SetState call has to run for the switch it made.
HooksOf(sw) == << <<"OnExit", sw[1]>>, <<"OnEnter", sw[2]>> >>

\* C29: a SetState call that switched from one state to a different one
\* runs OnExit of the replaced state once, then OnEnter of the new state
\* once, before it returns; a call that took the early return runs no hook.
C29_ExitThenEnterOnce ==
    \A t \in StateCallers :
       /\ switched[t] = <<>> => hook_log[t] = <<>>
       /\ switched[t] # <<>> =>
            /\ switched[t][1] # switched[t][2]
            /\ CASE pc[t] = "SetState_exit" -> hook_log[t] = <<>>
                 [] pc[t] = "SetState_enter" ->
                      hook_log[t] = SubSeq(HooksOf(switched[t]), 1, 1)
                 [] OTHER -> hook_log[t] = HooksOf(switched[t])

\* The connected callback has returned from a SetState call that replaced
\* WaitingForConnection by ConnectedIdle.
C29_Witness ==
    /\ pc["host"] = "idle"
    /\ switched["host"] = <<kWaitingForConnection, kConnectedIdle>>
    /\ Len(hook_log["host"]) = 2


\* PacketDecoder::Decode is called and returns.
DecodeStep == unit_pc \in {"encoded", "received"} /\ unit_pc' = "decoded"

\* C31: Decode leaves its input buffer as it was, and when it returns false
\* (wrong length, wrong sync byte or wrong checksum) the caller's record is
\* as it was before the call.
C31_DecodeFrame ==
    [][DecodeStep
       => /\ om_data' = om_data
          /\ ~dec_ret' => /\ dec_at' \in {"size", "sync", "checksum"}
                          /\ dec_packet' = dec_packet]_vars

\* Decode has rejected a frame for its checksum and the caller's record
\* still holds the result of an earlier call.
C31_Witness ==
    /\ unit_pc = "decoded"
    /\ ~dec_ret
    /\ dec_at = "checksum"
    /\ dec_packet \in OutRecords \ {NoPacket}


\* Initialization has not failed.
Running == boot_pc # "halted"

\* The main loop runs WaitingForConnectionState::Execute with a connected
\* link, and neither it nor the host task has a transition left to make.
WaitingWhileConnected ==
    /\ IsConnected
    /\ current_state_ = kWaitingForConnection
    /\ pc["main"] = "loop"
    /\ pc["host"] = "idle"

\* C32: once the link is connected, and for as long as it stays connected
\* on a device whose initialization has not failed, current_state_
\* eventually is kStreamingAudio.
C32_ConnectedReachesStreaming ==
    (IsConnected /\ Running)
      ~> (~IsConnected \/ ~Running \/ current_state_ = kStreamingAudio)


\* The edges of the transition table; an edge into WaitingForConnection is
\* granted from every state but FatalError, whatever requested it.
TableEdge(from, to) ==
    \/ from = kUninitialized /\ to = kWaitingForConnection
    \/ from = kWaitingForConnection /\ to = kConnectedIdle
    \/ from = kConnectedIdle /\ to = kStreamingAudio
    \/ from # kFatalError /\ to = kWaitingForConnection
    \/ to = kFatalError

\* C33: every change of current_state_ follows an edge of the transition
\* table; Streaming is entered only from ConnectedIdle and ConnectedIdle
\* only from WaitingForConnection.
C33_ChangesFollowTable ==
    [][current_state_' # current_state_
       => TableEdge(current_state_, current_state_')]_vars

\* Streaming is entered only from ConnectedIdle.
StreamingOnlyFromIdle ==
    [][(current_state_' # current_state_
        /\ current_state_' = kStreamingAudio)
       => current_state_ = kConnectedIdle]_vars


\* The positions of a task inside a SetState call.
InSetState ==
    {"SetState", "SetState_locked", "SetState_exit", "SetState_enter",
     "SetState_hooks"}

\* The states whose OnEnter sets the indicator, each to its own colour.
ColouredStates == {kWaitingForConnection, kConnectedIdle, kStreamingAudio}

\* C34: whenever no SetState call is in progress the OnEnter hook that ran
\* last is the one of current_state_: the indicator shows the colour that
\* hook sets.
C34_LastOnEnterIsCurrent ==
    (/\ \A t \in Callers : pc[t] \notin InSetState
     /\ current_state_ \in ColouredStates)
    => led = LedAfterOnEnter(current_state_, led)


\* C35: SendAudioPacket is called only while current_state_ is
\* kStreamingAudio, whatever events are handled during the Execute call.
C35_SendOnlyWhileStreaming ==
    [][(pc["main"] = "stream_send" /\ pc'["main"] # "stream_send")
       => current_state_ = kStreamingAudio]_vars


\* C36: a frame is passed to notify only during the connection it was
\* enqueued in: frames left in the queue at a disconnect do not reach the
\* next client.
C36_NoStaleFrameAfterReconnect ==
    \A i \in 1..Len(notified) : notified[i].enq_conn = notified[i].conn


\* The sequence number a frame carries (bytes 2 and 3, high byte first).
SequenceOfFrame(frame) == frame.bytes[3] * 256 + frame.bytes[4]

\* C37: frames that follow each other in the transport queue carry
\* consecutive sequence numbers, or the later one is the first of a new
\* session: a frame dropped by a timed-out enqueue leaves no gap.
C37_EnqueuedConsecutive ==
    \A i \in 1..(Len(send_queue_) - 1) :
       LET a == SequenceOfFrame(send_queue_[i])
           b == SequenceOfFrame(send_queue_[i + 1])
       IN  b = (a + 1) % SeqModulus \/ b = 0


\* The frame with this id is in a history of frame ids.
InHistory(id, ids) == \E i \in 1..Len(ids) : ids[i] = id

\* C38: the send task takes the frames in the order they were stored, each
\* once; every frame that was stored is eventually taken, and the send task
\* eventually is done with it (notify called, or the frame discarded) and
\* back at xQueueReceive or busy with a later frame.
C38_EnqueuedEventuallyHandled ==
    /\ [](/\ Len(dequeued) <= Len(enqueued)
          /\ dequeued = SubSeq(enqueued, 1, Len(dequeued)))
    /\ \A id \in 1..MaxLiveRecords :
         InHistory(id, enqueued)
           ~> (InHistory(id, dequeued) /\ packet_data.id # id)

\* Both frames of the run were stored, taken and handled, and the send task
\* waits in xQueueReceive.
C38_Witness ==
    /\ Len(enqueued) = MaxLiveRecords
    /\ dequeued = enqueued
    /\ pc["send"] = "receive"
    /\ packet_data = NoFrame


\* C39: the handle the send task passes to ble_gattc_notify_custom is never
\* BLE_HS_CONN_HANDLE_NONE: the call uses the handle the test has seen.
C39_NotifyHandleActive ==
    \A i \in 1..Len(notified) :
       notified[i].handle # BLE_HS_CONN_HANDLE_NONE

====
